---------------------------- MODULE Spec2Model ----------------------------
(***************************************************************************)
(* Verification model of the CryptoTrader decision pipeline:               *)
(*   risk/risk_manager.py, strategies/strategy_manager.py,                 *)
(*   adaptive/performance_tracker.py, adaptive/adaptive_controller.py,     *)
(*   core/bot.py and backtest/engine.py.                                   *)
(*                                                                         *)
(* Numbers.  Python floats are modelled by exact integer arithmetic:       *)
(* money in whole dollars, percentages as integer percent, confidences in  *)
(* hundredths, and every comparison of a quotient against a threshold is   *)
(* cross-multiplied.  Rounding of IEEE doubles is not modelled.            *)
(***************************************************************************)
EXTENDS Integers, Sequences, FiniteSets, TLC

VARIABLES
    bar,      \* the caller's bar index (bot._tick_counter / engine bar_idx)
    rm,       \* RiskManager instance state (risk_manager.py:9-25)
    obs,      \* the last call made and what it returned
    sl_note,  \* history: per symbol, the cooldown length in force when its
              \* stop-loss was registered and whether anything was
              \* registered since
    events,   \* history: number of register_* calls made so far
    tr,       \* PerformanceTracker instance state (performance_tracker.py:47-59)
    db,       \* rows of the adaptive_trades table, in insertion order
    sm,       \* StrategyManager instance state (strategy_manager.py:26-30)
    mkt,      \* what the data sources currently return for the symbol
              \* under analysis
    portfolio,\* Portfolio.positions (portfolio.py:40-42)
    bot,      \* TradingBot: its mode, the adaptive switch, daily resets made
    cfg,      \* the settings that are varied between runs
    hist,     \* history: per symbol, the regimes get_signal has returned
    opened    \* history: the number of positions opened at each bar index

vars == <<bar, rm, obs, sl_note, events, tr, db, sm, mkt, portfolio, bot,
          cfg, hist, opened>>

riskVars     == <<bar, rm, sl_note, events>>
adaptiveVars == <<tr, db>>
signalVars   == <<sm, mkt>>
botVars      == <<portfolio, bot, cfg, hist, opened>>
notRisk      == <<adaptiveVars, signalVars, botVars>>
notAdaptive  == <<riskVars, signalVars, botVars>>
notSignal    == <<riskVars, adaptiveVars, botVars>>

-----------------------------------------------------------------------------
(* Bounds of the model *)

MaxBar    == 11   \* bar indices explored: 0..MaxBar
MaxEvents == 3    \* register_stop_loss / register_win calls explored
MaxTrades == 6    \* closed trades explored
Lookback  == 5    \* PerformanceTracker.lookback (ADAPTIVE_LOOKBACK_TRADES = 50)
MinTrades == 2    \* PerformanceTracker.min_trades (ADAPTIVE_MIN_TRADES = 8)
MaxAlignedTFs == 3   \* higher timeframes that can agree with a signal
MaxRejections == 3   \* values of the higher-TF rejection counter explored
MaxTicks  == 2       \* ticks of the live bot
MaxDays   == 1       \* daily resets of the live bot
MaxWaitBars  == 2    \* REGIME_CHANGE_WAIT_BARS is 1..MaxWaitBars
MaxFrequencyBar == 7 \* bar indices of the trade-frequency window: 0..MaxFrequencyBar
MaxRegimeBar == 3    \* bar indices at which get_signal is called: 0..MaxRegimeBar

Symbols == {"BTC", "SOL"}
NoBar   == -1     \* "symbol not in the dict"

-----------------------------------------------------------------------------
(* config/settings.py *)

COOLDOWN_BARS          == 5
MAX_CONSECUTIVE_LOSSES == 2
DAILY_LOSS_LIMIT_PCT   == 12    \* 0.12
MAX_DRAWDOWN_PCT       == 35    \* 0.35
MAX_OPEN_POSITIONS     == 5
MAX_POSITION_PCT       == 15    \* 0.15
VOLATILE_REGIME_SIZING == 67    \* 0.67
LEVERAGE               == 25
MIN_SIGNAL_CONFIDENCE  == 75    \* 0.75, in hundredths
MIN_NOTIONAL           == 5     \* risk_manager.py:261, dollars
RR_MIN_TRADES          == 5     \* adaptive_controller.py:227
STOP_LOSS_ATR_MULTIPLIER == 15  \* 1.5, in tenths
REGIME_CHANGE_WAIT_BARS          == 0
TRENDING_WEAK_CONFIDENCE_PENALTY == 8    \* 0.08, in hundredths
CHOPPY_CONFIDENCE_PENALTY        == 12   \* 0.12 (strategy_manager.py:214)
NEWS_SENTIMENT_WEIGHT            == 15   \* 0.15
FUNDING_ZSCORE_THRESHOLD         == 2    \* 2.0
MTF_REGIME_ADX_THRESHOLD         == 22
MTF_STRONG_ADX_THRESHOLD         == 25
MTF_WEAK_ADX_THRESHOLD           == 18
MTF_REJECTION_CONFIRMATIONS      == 3
MTF_REGIME_CONFIRMATION == TRUE
ENABLE_TRENDING_WEAK    == TRUE
DERIVATIVES_ENABLED     == TRUE
CHOPPY_FILTER_ENABLED   == FALSE         \* not in settings; getattr default
REWARD_RISK_RATIO      == 2     \* 2.0
MAX_TRADES_PER_HOUR          == 3
MAX_TRADES_PER_DAY           == 18
MAX_SAME_DIRECTION_POSITIONS == 1
MAX_ENTRIES_PER_TICK         == 2
POST_PROFIT_COOLDOWN_BARS    == 0
MIN_SL_DISTANCE_PCT          == 15   \* 0.015, in thousandths
BREAKEVEN_RR                 == 1
TRAILING_STOP_ATR_MULTIPLIER == 15   \* 1.5, in tenths
TRAILING_STOP_ENABLED == TRUE
TRAILING_HYBRID       == TRUE
STAIRCASE_PROFIT_ENABLED == FALSE
MOMENTUM_DECAY_EXIT      == FALSE

Strategies == {"momentum", "mean_reversion", "breakout"}

\* STRATEGY_MIN_CONFIDENCE.get(strategy, MIN_SIGNAL_CONFIDENCE), in hundredths
StrategyMinConfidence(strategy) ==
    CASE strategy = "momentum"       -> 78
      [] strategy = "mean_reversion" -> 72
      [] strategy = "breakout"       -> 70
      [] OTHER                       -> MIN_SIGNAL_CONFIDENCE

-----------------------------------------------------------------------------
(* Exact fractions n/d, d > 0, kept in lowest terms *)

Abs(x) == IF x < 0 THEN -x ELSE x
Min(a, b) == IF a <= b THEN a ELSE b
Max(a, b) == IF a >= b THEN a ELSE b

RECURSIVE GCD(_, _)
GCD(a, b) == IF b = 0 THEN a ELSE GCD(b, a % b)

Q(n, d) ==
    LET g == GCD(Abs(n), d)
    IN  IF n = 0 THEN [n |-> 0, d |-> 1] ELSE [n |-> n \div g, d |-> d \div g]

QInt(k)    == [n |-> k, d |-> 1]
QMul(a, b) == LET x == Q(a.n, b.d)  y == Q(b.n, a.d)
              IN  [n |-> x.n * y.n, d |-> x.d * y.d]
QDiv(a, b) == QMul(a, [n |-> b.d, d |-> b.n])      \* b > 0
QAdd(a, b) == LET g == GCD(a.d, b.d)
              IN  Q(a.n * (b.d \div g) + b.n * (a.d \div g), (a.d \div g) * b.d)
QSub(a, b) == QAdd(a, [n |-> -b.n, d |-> b.d])
QLe(a, b)  == LET g == GCD(a.d, b.d)
              IN  a.n * (b.d \div g) <= b.n * (a.d \div g)
QLt(a, b)  == ~QLe(b, a)
QMin(a, b) == IF QLe(a, b) THEN a ELSE b
QMax(a, b) == IF QLe(a, b) THEN b ELSE a

\* halt_reason strings, up to the formatted numbers
NoReason        == ""
DailyLossReason == "Daily loss limit hit"
DrawdownReason  == "Max drawdown circuit breaker"

-----------------------------------------------------------------------------
(* RiskManager *)

RiskManagerInit ==
    [ peak_portfolio_value |-> 0,
      daily_starting_value |-> 0,
      trading_halted       |-> FALSE,
      halt_reason          |-> NoReason,
      last_stop_loss_bar   |-> [s \in Symbols |-> NoBar],
      consecutive_losses   |-> 0,
      trades_this_hour     |-> 0,
      hour_start_bar       |-> 0,
      trades_today         |-> 0,
      last_win_bar         |-> [s \in Symbols |-> NoBar],
      entries_this_tick    |-> 0,
      current_tick_bar     |-> -1 ]

reset_daily(r, portfolio_value) ==
    [r EXCEPT !.daily_starting_value = portfolio_value,
              !.trading_halted       = FALSE,
              !.halt_reason          = NoReason,
              !.trades_today         = 0]

update_peak(r, portfolio_value) ==
    IF portfolio_value > r.peak_portfolio_value
    THEN [r EXCEPT !.peak_portfolio_value = portfolio_value]
    ELSE r

register_stop_loss(r, symbol, bar_index) ==
    [r EXCEPT !.last_stop_loss_bar[symbol] = bar_index,
              !.consecutive_losses         = @ + 1]

register_win(r, symbol, bar_index) ==
    [r EXCEPT !.consecutive_losses   = 0,
              !.last_win_bar[symbol] = bar_index]

\* A plausible slip: the boundary bar b + cooldown still blocked.
check_cooldown_offbyone(r, symbol, bar_index) ==
    LET last_sl_bar == r.last_stop_loss_bar[symbol]
        cooldown    == IF r.consecutive_losses >= MAX_CONSECUTIVE_LOSSES
                       THEN COOLDOWN_BARS * 2 ELSE COOLDOWN_BARS
    IN  IF last_sl_bar = NoBar THEN FALSE
        ELSE bar_index - last_sl_bar <= cooldown

\* TRUE = still in cooldown (the trade is blocked)
check_cooldown(r, symbol, bar_index) ==
    LET last_sl_bar == r.last_stop_loss_bar[symbol]
        cooldown    == IF r.consecutive_losses >= MAX_CONSECUTIVE_LOSSES
                       THEN COOLDOWN_BARS * 2 ELSE COOLDOWN_BARS
    IN  IF last_sl_bar = NoBar THEN FALSE
        ELSE bar_index - last_sl_bar < cooldown

\* A plausible slip: the halted flag is not consulted first.
check_circuit_breakers_nolatch(r, portfolio_value, open_position_count) ==
    IF portfolio_value <= 0 THEN [ret |-> FALSE, rm |-> r]
    ELSE IF r.daily_starting_value > 0
            /\ 2 * portfolio_value < r.daily_starting_value
         THEN [ret |-> FALSE, rm |-> r]
    ELSE IF r.daily_starting_value > 0
            /\ 100 * (portfolio_value - r.daily_starting_value)
                 <= -DAILY_LOSS_LIMIT_PCT * r.daily_starting_value
         THEN [ret |-> FALSE,
               rm  |-> [r EXCEPT !.trading_halted = TRUE,
                                 !.halt_reason = DailyLossReason]]
    ELSE [ret |-> open_position_count < MAX_OPEN_POSITIONS, rm |-> r]

\* Returns the pair (return value, risk manager afterwards).
check_circuit_breakers(r, portfolio_value, open_position_count) ==
    IF r.trading_halted THEN [ret |-> FALSE, rm |-> r]
    ELSE IF portfolio_value <= 0 THEN [ret |-> FALSE, rm |-> r]
    ELSE IF r.daily_starting_value > 0
            /\ 2 * portfolio_value < r.daily_starting_value
         THEN [ret |-> FALSE, rm |-> r]
    ELSE IF r.daily_starting_value > 0
            /\ 100 * (portfolio_value - r.daily_starting_value)
                 <= -DAILY_LOSS_LIMIT_PCT * r.daily_starting_value
         THEN [ret |-> FALSE,
               rm  |-> [r EXCEPT !.trading_halted = TRUE,
                                 !.halt_reason = DailyLossReason]]
    ELSE IF r.peak_portfolio_value > 0
            /\ 100 * (r.peak_portfolio_value - portfolio_value)
                 >= MAX_DRAWDOWN_PCT * r.peak_portfolio_value
         THEN [ret |-> FALSE,
               rm  |-> [r EXCEPT !.trading_halted = TRUE,
                                 !.halt_reason = DrawdownReason]]
    ELSE IF open_position_count >= MAX_OPEN_POSITIONS
         THEN [ret |-> FALSE, rm |-> r]
    ELSE [ret |-> TRUE, rm |-> r]

\* drawdown from the peak as a fraction in [0, 1]
get_current_drawdown(r, portfolio_value) ==
    IF r.peak_portfolio_value <= 0 THEN QInt(0)
    ELSE QMax(QInt(0), Q(r.peak_portfolio_value - portfolio_value,
                         r.peak_portfolio_value))

\* max_margin after the regime, confidence and drawdown scalings
\* (risk_manager.py:209-238); sig is a TradeSignal
allocated_margin(r, sig, portfolio_value, regime) ==
    LET base     == Q(portfolio_value * MAX_POSITION_PCT, 100)
        regimed  == IF regime = "volatile"
                    THEN QMul(base, Q(VOLATILE_REGIME_SIZING, 100)) ELSE base
        min_conf == StrategyMinConfidence(sig.strategy)
        range    == 100 - min_conf
        excess   == Q(sig.confidence - min_conf, range)
        scale    == IF range > 0
                    THEN QAdd(Q(60, 100),
                              QMul(Q(40, 100),
                                   QMax(QInt(0), QMin(QInt(1), excess))))
                    ELSE QInt(1)
        scaled   == QMul(regimed, scale)
        drawdown == get_current_drawdown(r, portfolio_value)
        dd_scale == QMax(Q(25, 100),
                         QSub(QInt(1),
                              QMul(QSub(drawdown, Q(10, 100)), Q(75, 10))))
    IN  IF QLt(Q(10, 100), drawdown) THEN QMul(scaled, dd_scale) ELSE scaled

\* A plausible slip: the quantity is taken from the notional alone, without
\* the cap max_margin / risk_per_unit.
calculate_position_size_nocap(r, sig, portfolio_value, current_price, regime) ==
    LET max_margin   == allocated_margin(r, sig, portfolio_value, regime)
        max_notional == QMul(max_margin, QInt(LEVERAGE))
        quantity     == QDiv(max_notional, QInt(current_price))
    IN  IF sig.signal = "HOLD" THEN QInt(0)
        ELSE IF Abs(current_price - sig.stop_loss) <= 0 THEN QInt(0)
        ELSE IF QLt(QMul(quantity, QInt(current_price)), QInt(MIN_NOTIONAL))
             THEN QInt(0)
        ELSE quantity

calculate_position_size(r, sig, portfolio_value, current_price, regime) ==
    LET max_margin    == allocated_margin(r, sig, portfolio_value, regime)
        max_notional  == QMul(max_margin, QInt(LEVERAGE))
        risk_per_unit == Abs(current_price - sig.stop_loss)
        by_notional   == QDiv(max_notional, QInt(current_price))
        risk_quantity == QDiv(max_margin, QInt(risk_per_unit))
        quantity      == QMin(QMin(by_notional, risk_quantity), by_notional)
    IN  IF sig.signal = "HOLD" THEN QInt(0)
        ELSE IF risk_per_unit <= 0 THEN QInt(0)
        ELSE IF QLt(QMul(quantity, QInt(current_price)), QInt(MIN_NOTIONAL))
             THEN QInt(0)
        ELSE quantity

\* 60 // tf_minutes for PRIMARY_TIMEFRAME = "15m" (risk_manager.py:74-76)
bars_per_hour == 4

\* TRUE = the hourly or daily cap is reached (the trade is blocked); the
\* hourly window is restarted first when it has run out
check_trade_frequency(r, bar_index) ==
    LET r2 == IF bar_index - r.hour_start_bar >= bars_per_hour
              THEN [r EXCEPT !.hour_start_bar = bar_index,
                             !.trades_this_hour = 0]
              ELSE r
    IN  [ret |-> \/ r2.trades_this_hour >= MAX_TRADES_PER_HOUR
                 \/ r2.trades_today >= MAX_TRADES_PER_DAY,
         rm  |-> r2]

record_trade_opened(r) ==
    [r EXCEPT !.trades_this_hour  = @ + 1,
              !.trades_today      = @ + 1,
              !.entries_this_tick = @ + 1]

\* A plausible slip: the cap is tested with > instead of >=.
check_correlation_exposure_above(side, positions) ==
    Cardinality({s \in Symbols : positions[s].open /\ positions[s].side = side})
        > MAX_SAME_DIRECTION_POSITIONS

\* positions is Portfolio.positions; side is "buy" or "sell"
check_correlation_exposure(side, positions) ==
    Cardinality({s \in Symbols : positions[s].open /\ positions[s].side = side})
        >= MAX_SAME_DIRECTION_POSITIONS

check_post_profit_cooldown(r, symbol, bar_index) ==
    IF POST_PROFIT_COOLDOWN_BARS <= 0 THEN FALSE
    ELSE IF r.last_win_bar[symbol] = NoBar THEN FALSE
    ELSE bar_index - r.last_win_bar[symbol] < POST_PROFIT_COOLDOWN_BARS

check_trade_clustering(r, bar_index) ==
    LET r2 == IF bar_index # r.current_tick_bar
              THEN [r EXCEPT !.current_tick_bar = bar_index,
                             !.entries_this_tick = 0]
              ELSE r
    IN  [ret |-> r2.entries_this_tick >= MAX_ENTRIES_PER_TICK, rm |-> r2]

\* STRATEGY_REWARD_RISK_RATIO.get(strategy, REWARD_RISK_RATIO), in tenths
StrategyRewardRisk(strategy) ==
    CASE strategy = "momentum"       -> 20
      [] strategy = "mean_reversion" -> 12
      [] strategy = "breakout"       -> 20
      [] OTHER                       -> 10 * REWARD_RISK_RATIO

\* the stop moved to the floor distance min_sl_distance_pct * entry and the
\* take-profit rebuilt at the strategy's reward:risk (risk_manager.py:287-299)
WidenedToFloor(signal) ==
    LET min_sl_dist == (signal.entry_price * MIN_SL_DISTANCE_PCT) \div 1000
        target      == (min_sl_dist * StrategyRewardRisk(signal.strategy)) \div 10
    IN  IF signal.signal = "BUY"
        THEN [signal EXCEPT !.stop_loss   = signal.entry_price - min_sl_dist,
                            !.take_profit = signal.entry_price + target]
        ELSE [signal EXCEPT !.stop_loss   = signal.entry_price + min_sl_dist,
                            !.take_profit = signal.entry_price - target]

\* reward / risk < min_rr - 0.01, cross-multiplied
RewardRiskTooLow(signal, min_rr_tenths) ==
    LET risk   == Abs(signal.entry_price - signal.stop_loss)
        reward == Abs(signal.take_profit - signal.entry_price)
    IN  risk > 0 /\ 100 * reward < risk * (10 * min_rr_tenths - 1)

\* Returns the pair (accepted, the signal as validate_signal leaves it): the
\* stop and take-profit of the caller's signal object are rewritten in place
\* when the stop is closer than the floor.
\* A plausible slip: the older behaviour, a stop closer than the floor is
\* refused.
validate_signal_rejecting(signal) ==
    IF signal.signal = "HOLD" THEN [ret |-> FALSE, signal |-> signal]
    ELSE IF signal.confidence < StrategyMinConfidence(signal.strategy)
         THEN [ret |-> FALSE, signal |-> signal]
    ELSE IF signal.stop_loss <= 0 THEN [ret |-> FALSE, signal |-> signal]
    ELSE IF 1000 * Abs(signal.entry_price - signal.stop_loss)
               < MIN_SL_DISTANCE_PCT * signal.entry_price
         THEN [ret |-> FALSE, signal |-> signal]
    ELSE [ret    |-> ~RewardRiskTooLow(signal,
                                       StrategyRewardRisk(signal.strategy)),
          signal |-> signal]

validate_signal(signal) ==
    IF signal.signal = "HOLD" THEN [ret |-> FALSE, signal |-> signal]
    ELSE IF signal.confidence < StrategyMinConfidence(signal.strategy)
         THEN [ret |-> FALSE, signal |-> signal]
    ELSE IF signal.stop_loss <= 0 THEN [ret |-> FALSE, signal |-> signal]
    ELSE LET widened ==
                 IF 1000 * Abs(signal.entry_price - signal.stop_loss)
                        < MIN_SL_DISTANCE_PCT * signal.entry_price
                 THEN WidenedToFloor(signal) ELSE signal
         IN  [ret    |-> ~RewardRiskTooLow(widened,
                                           StrategyRewardRisk(widened.strategy)),
              signal |-> widened]

check_stop_loss(stop_loss, current_price, side) ==
    IF side = "buy" THEN current_price <= stop_loss
    ELSE current_price >= stop_loss

check_take_profit(take_profit, current_price, side) ==
    IF side = "buy" THEN current_price >= take_profit
    ELSE current_price <= take_profit

-----------------------------------------------------------------------------
(* PerformanceTracker (src/adaptive/performance_tracker.py).  A trade is a
   record [strategy, pnl, risk]; the other TradeRecord fields are not read
   by the metrics. *)

\* the keys record_trade can create: the strategies and the tag of a
\* position recovered from the exchange (bot.py:142)
TrackedStrategies == Strategies \cup {"recovered"}

PerformanceTrackerInit ==
    [ trades             |-> [s \in TrackedStrategies |-> <<>>],
      all_trades         |-> <<>>,
      streaks            |-> [s \in TrackedStrategies |-> 0],
      overall_streak     |-> 0,
      overall_max_losing |-> 0 ]

\* deque(maxlen = cap).append
Push(window, t, cap) ==
    LET w == Append(window, t) IN IF Len(w) > cap THEN Tail(w) ELSE w

\* the streak update of record_trade (performance_tracker.py:74-93)
NextStreak(streak, pnl) ==
    IF pnl > 0 THEN (IF streak > 0 THEN streak + 1 ELSE 1)
               ELSE (IF streak < 0 THEN streak - 1 ELSE -1)

record_trade(t, trade) ==
    [t EXCEPT !.trades[trade.strategy] = Push(@, trade, Lookback),
              !.all_trades = Push(@, trade, Lookback),
              !.streaks[trade.strategy] = NextStreak(@, trade.pnl),
              !.overall_streak = NextStreak(@, trade.pnl),
              !.overall_max_losing =
                  IF trade.pnl > 0 THEN @
                  ELSE Max(@, Abs(NextStreak(t.overall_streak, trade.pnl)))]

\* A plausible slip: any recorded trade counts as enough data.
has_enough_data_nonempty(t, strategy) == Len(t.trades[strategy]) >= 1

has_enough_data(t, strategy) == Len(t.trades[strategy]) >= MinTrades

RECURSIVE Sum(_)
Sum(seq) == IF seq = <<>> THEN 0 ELSE Head(seq) + Sum(Tail(seq))

RECURSIVE QSum(_)
QSum(seq) == IF seq = <<>> THEN QInt(0) ELSE QAdd(Head(seq), QSum(Tail(seq)))

SeqMax(seq) == CHOOSE x \in {seq[i] : i \in DOMAIN seq} :
                   \A y \in {seq[i] : i \in DOMAIN seq} : y <= x
SeqMin(seq) == CHOOSE x \in {seq[i] : i \in DOMAIN seq} :
                   \A y \in {seq[i] : i \in DOMAIN seq} : x <= y

\* length of the run of losing trades that ends at index i
RECURSIVE LosingRun(_, _)
LosingRun(trades, i) ==
    IF i = 0 \/ trades[i].pnl > 0 THEN 0 ELSE 1 + LosingRun(trades, i - 1)

\* slope of the min-max normalised cumulative PnL against index / n, clamped
\* to [-1, 1]:  slope = n * Sxy / (y_range * Sxx), all sums taken over 0..n-1
compute_pnl_trend(trades) ==
    LET n       == Len(trades)
        cum_pnl == [i \in 1..n |-> Sum([j \in 1..i |-> trades[j].pnl])]
        y_range == SeqMax(cum_pnl) - SeqMin(cum_pnl)
        Sx      == Sum([i \in 1..n |-> i - 1])
        Sxx     == Sum([i \in 1..n |-> (i - 1) * (i - 1)])
        Sy      == Sum(cum_pnl)
        Sxy     == Sum([i \in 1..n |-> (i - 1) * cum_pnl[i]])
        slope   == Q(n * (n * Sxy - Sx * Sy), y_range * (n * Sxx - Sx * Sx))
    IN  IF n < 3 THEN QInt(0)
        ELSE IF y_range = 0 THEN QInt(0)
        ELSE QMax(QInt(-1), QMin(QInt(1), slope))

\* StrategyMetrics(); profit_factor = +inf is the flag pf_inf
StrategyMetricsDefault ==
    [ trade_count |-> 0, win_count |-> 0, win_rate |-> QInt(0),
      pf_inf |-> FALSE, profit_factor |-> QInt(1), avg_pnl |-> QInt(0),
      avg_rr_achieved |-> QInt(0), total_pnl |-> 0, current_streak |-> 0,
      max_losing_streak |-> 0, recent_trend |-> QInt(0) ]

compute_metrics(trades, streak) ==
    LET n            == Len(trades)
        pnls         == [i \in 1..n |-> trades[i].pnl]
        gross_profit == Sum([i \in 1..n |-> IF pnls[i] > 0 THEN pnls[i] ELSE 0])
        gross_loss   == Abs(Sum([i \in 1..n |-> IF pnls[i] <= 0 THEN pnls[i] ELSE 0]))
        win_count    == Cardinality({i \in 1..n : pnls[i] > 0})
        risky        == SelectSeq(trades, LAMBDA t : t.risk > 0)
        rr_values    == [i \in 1..Len(risky) |-> Q(risky[i].pnl, risky[i].risk)]
    IN  IF n = 0 THEN StrategyMetricsDefault
        ELSE [ trade_count |-> n,
               win_count   |-> win_count,
               win_rate    |-> Q(win_count, n),
               pf_inf      |-> gross_loss = 0 /\ gross_profit > 0,
               profit_factor |-> IF gross_loss > 0
                                 THEN Q(gross_profit, gross_loss) ELSE QInt(1),
               avg_pnl     |-> Q(Sum(pnls), n),
               avg_rr_achieved |-> IF Len(risky) > 0
                                   THEN QDiv(QSum(rr_values), QInt(Len(risky)))
                                   ELSE QInt(0),
               total_pnl   |-> Sum(pnls),
               current_streak |-> streak,
               max_losing_streak |->
                   SeqMax([i \in 1..n |-> LosingRun(trades, i)]),
               recent_trend |-> compute_pnl_trend(trades) ]

get_strategy_metrics(t, strategy) ==
    compute_metrics(t.trades[strategy], t.streaks[strategy])

get_overall_metrics(t) == compute_metrics(t.all_trades, t.overall_streak)

\* Database.load_adaptive_trades: the last `limit` rows, oldest first
load_adaptive_trades(rows, limit) ==
    IF Len(rows) <= limit THEN rows
    ELSE SubSeq(rows, Len(rows) - limit + 1, Len(rows))

\* PerformanceTracker.load_state: the history is recorded into the tracker,
\* oldest first
RECURSIVE load_state(_, _)
load_state(t, history) ==
    IF history = <<>> THEN t
    ELSE load_state(record_trade(t, Head(history)), Tail(history))

-----------------------------------------------------------------------------
(* AdaptiveController (src/adaptive/adaptive_controller.py) *)

Clamp(lo, hi, x) == QMax(lo, QMin(hi, x))

PFGreater(metrics, bound) == metrics.pf_inf \/ QLt(bound, metrics.profit_factor)
PFLess(metrics, bound)    == ~metrics.pf_inf /\ QLt(metrics.profit_factor, bound)

\* _DEFAULT_CONFIDENCE.get(strategy, MIN_SIGNAL_CONFIDENCE)
DefaultConfidence(strategy) == Q(StrategyMinConfidence(strategy), 100)

compute_confidence(strategy, metrics, has_data) ==
    LET base == DefaultConfidence(strategy)
        wr   == metrics.win_rate
        a1   == IF QLt(Q(50, 100), wr)
                THEN QSub(QInt(0),
                          QMul(Q(10, 100),
                               QDiv(QMin(QSub(wr, Q(50, 100)), Q(15, 100)),
                                    Q(15, 100))))
                ELSE IF QLt(wr, Q(40, 100))
                THEN QMul(Q(5, 100),
                          QDiv(QMin(QSub(Q(40, 100), wr), Q(15, 100)),
                               Q(15, 100)))
                ELSE QInt(0)
        a2   == IF PFGreater(metrics, Q(15, 10)) THEN QSub(a1, Q(3, 100)) ELSE a1
        a3   == IF PFLess(metrics, Q(7, 10)) THEN QAdd(a2, Q(3, 100)) ELSE a2
        a4   == IF QLt(Q(5, 10), metrics.recent_trend)
                THEN QSub(a3, Q(3, 100)) ELSE a3
        adjustment == Clamp(Q(-10, 100), Q(8, 100), a4)
    IN  IF ~has_data THEN base
        ELSE Clamp(Q(60, 100), Q(90, 100), QAdd(base, adjustment))

\* the scale before the final clamp (adaptive_controller.py:121-154)
RawSizeScale(metrics) ==
    LET pf     == metrics.profit_factor
        by_pf  == IF PFGreater(metrics, QInt(2)) THEN QInt(2)
                  ELSE IF PFGreater(metrics, Q(15, 10))
                  THEN QAdd(Q(12, 10),
                            QMul(Q(8, 10), QDiv(QSub(pf, Q(15, 10)), Q(5, 10))))
                  ELSE IF PFGreater(metrics, QInt(1))
                  THEN QAdd(QInt(1),
                            QMul(Q(2, 10), QDiv(QSub(pf, QInt(1)), Q(5, 10))))
                  ELSE IF PFGreater(metrics, Q(5, 10))
                  THEN QAdd(Q(3, 10),
                            QMul(Q(7, 10), QDiv(QSub(pf, Q(5, 10)), Q(5, 10))))
                  ELSE Q(25, 100)
        losing == IF metrics.current_streak <= -4
                  THEN QMul(by_pf, Q(5, 10)) ELSE by_pf
        winning == IF metrics.current_streak >= 4
                   THEN QMul(losing, Q(125, 100)) ELSE losing
    IN  IF QLt(Q(6, 10), metrics.recent_trend) THEN QMul(winning, Q(12, 10))
        ELSE IF QLt(metrics.recent_trend, Q(-6, 10)) THEN QMul(winning, Q(7, 10))
        ELSE winning

\* A plausible slip: the final clamp to [0.15, 2.0] is left out.
compute_size_scale_unclamped(strategy, metrics, has_data) ==
    IF ~has_data THEN QInt(1) ELSE RawSizeScale(metrics)

compute_size_scale(strategy, metrics, has_data) ==
    IF ~has_data THEN QInt(1)
    ELSE Clamp(Q(15, 100), QInt(2), RawSizeScale(metrics))

compute_leverage_scale(t, overall) ==
    LET has_overall_data == Len(t.all_trades) >= MinTrades
        by_pf == IF PFGreater(overall, Q(12, 10)) THEN QInt(1)
                 ELSE IF PFGreater(overall, Q(8, 10))
                 THEN QAdd(Q(7, 10),
                           QDiv(QMul(Q(3, 10),
                                     QSub(overall.profit_factor, Q(8, 10))),
                                Q(4, 10)))
                 ELSE Q(7, 10)
        scale == IF overall.current_streak <= -6
                 THEN QMin(by_pf, Q(6, 10)) ELSE by_pf
    IN  IF ~has_overall_data THEN QInt(1)
        ELSE Clamp(Q(6, 10), QInt(1), scale)

compute_sl_multiplier(t, overall) ==
    LET has_data == Len(t.all_trades) >= MinTrades
        base     == Q(STOP_LOSS_ATR_MULTIPLIER, 10)
        wr       == overall.win_rate
        result   == IF QLt(Q(50, 100), wr)
                    THEN QSub(base,
                              QMul(Q(15, 100),
                                   QDiv(QMin(QSub(wr, Q(50, 100)), Q(15, 100)),
                                        Q(15, 100))))
                    ELSE IF QLt(wr, Q(35, 100))
                    THEN QAdd(base,
                              QMul(Q(2, 10),
                                   QDiv(QMin(QSub(Q(35, 100), wr), Q(15, 100)),
                                        Q(15, 100))))
                    ELSE base
    IN  IF ~has_data THEN base ELSE Clamp(Q(12, 10), QInt(2), result)

\* best_rr: the largest avg_rr_achieved above 0 among the strategies with at
\* least RR_MIN_TRADES trades (adaptive_controller.py:225-228)
BestRR(strategy_metrics) ==
    LET eligible == {s \in Strategies :
                       /\ strategy_metrics[s].trade_count >= RR_MIN_TRADES
                       /\ QLt(QInt(0), strategy_metrics[s].avg_rr_achieved)}
    IN  IF eligible = {} THEN QInt(0)
        ELSE LET best == CHOOSE s \in eligible : \A u \in eligible :
                             QLe(strategy_metrics[u].avg_rr_achieved,
                                 strategy_metrics[s].avg_rr_achieved)
             IN  strategy_metrics[best].avg_rr_achieved

compute_rr_ratio(t, overall, strategy_metrics) ==
    LET has_data == Len(t.all_trades) >= MinTrades
        base     == QInt(REWARD_RISK_RATIO)
        best_rr  == BestRR(strategy_metrics)
        result   == IF QLt(Q(25, 10), best_rr)
                    THEN QAdd(base,
                              QMul(Q(3, 10),
                                   QMin(QSub(best_rr, Q(25, 10)), QInt(1))))
                    ELSE IF QLt(QInt(0), best_rr) /\ QLt(best_rr, Q(15, 10))
                    THEN QSub(base,
                              QMul(Q(3, 10),
                                   QMin(QSub(Q(15, 10), best_rr), QInt(1))))
                    ELSE base
    IN  IF ~has_data THEN base ELSE Clamp(Q(15, 10), Q(25, 10), result)

compute_overrides(t) ==
    LET overall == get_overall_metrics(t)
        strategy_metrics == [s \in Strategies |-> get_strategy_metrics(t, s)]
    IN  [ min_confidence |->
              [s \in Strategies |->
                  compute_confidence(s, strategy_metrics[s],
                                     has_enough_data(t, s))],
          position_size_scale |->
              [s \in Strategies |->
                  compute_size_scale(s, strategy_metrics[s],
                                     has_enough_data(t, s))],
          strategy_enabled  |-> [s \in Strategies |-> TRUE],
          leverage_scale    |-> compute_leverage_scale(t, overall),
          sl_atr_multiplier |-> compute_sl_multiplier(t, overall),
          rr_ratio          |-> compute_rr_ratio(t, overall, strategy_metrics) ]

-----------------------------------------------------------------------------
(* StrategyManager (src/strategies/strategy_manager.py).  Confidences are in
   hundredths, funding rates in units of 0.0001, order-book imbalance and
   news score in hundredths.  A signal's reason is the sequence of its
   "; "-separated parts. *)

NoRegime == "unseen"

StrategyManagerInit ==
    [ last_regime         |-> [s \in Symbols |-> NoRegime],
      regime_change_bar   |-> [s \in Symbols |-> NoBar],
      htf_rejection_count |-> [s \in Symbols |-> 0] ]

\* self.strategies: the strategy that analyses each regime
StrategyFor(regime) ==
    CASE regime \in {"trending", "trending_strong", "trending_weak"} -> "momentum"
      [] regime = "volatile" -> "breakout"
      [] OTHER -> "mean_reversion"

\* htf is the higher-timeframe data: its ADX on the confirmation timeframe
\* and the number of bullish / bearish higher timeframes
\* A plausible slip: the weak tier forgets to reset the rejection counter.
confirm_regime_noreset(m, regime, htf, symbol) ==
    IF ~htf.present THEN [regime |-> regime, sm |-> m]
    ELSE IF ENABLE_TRENDING_WEAK
    THEN IF htf.adx >= MTF_STRONG_ADX_THRESHOLD
         THEN [regime |-> "trending_strong",
               sm |-> [m EXCEPT !.htf_rejection_count[symbol] = 0]]
         ELSE IF htf.adx >= MTF_WEAK_ADX_THRESHOLD
         THEN [regime |-> "trending_weak", sm |-> m]
         ELSE LET count == m.htf_rejection_count[symbol] + 1
              IN  [regime |-> IF count >= MTF_REJECTION_CONFIRMATIONS
                              THEN "ranging" ELSE "trending_weak",
                   sm |-> [m EXCEPT !.htf_rejection_count[symbol] = count]]
    ELSE IF htf.adx < MTF_REGIME_ADX_THRESHOLD
         THEN [regime |-> "ranging", sm |-> m]
         ELSE [regime |-> regime, sm |-> m]

confirm_regime(m, regime, htf, symbol) ==
    IF ~htf.present THEN [regime |-> regime, sm |-> m]
    ELSE IF ENABLE_TRENDING_WEAK
    THEN IF htf.adx >= MTF_STRONG_ADX_THRESHOLD
         THEN [regime |-> "trending_strong",
               sm |-> [m EXCEPT !.htf_rejection_count[symbol] = 0]]
         ELSE IF htf.adx >= MTF_WEAK_ADX_THRESHOLD
         THEN [regime |-> "trending_weak",
               sm |-> [m EXCEPT !.htf_rejection_count[symbol] = 0]]
         ELSE LET count == m.htf_rejection_count[symbol] + 1
              IN  [regime |-> IF count >= MTF_REJECTION_CONFIRMATIONS
                              THEN "ranging" ELSE "trending_weak",
                   sm |-> [m EXCEPT !.htf_rejection_count[symbol] = count]]
    ELSE IF htf.adx < MTF_REGIME_ADX_THRESHOLD
         THEN [regime |-> "ranging", sm |-> m]
         ELSE [regime |-> regime, sm |-> m]

HoldSignal(symbol_reason) ==
    [signal |-> "HOLD", confidence |-> 0, strategy |-> "",
     entry_price |-> 0, stop_loss |-> 0, take_profit |-> 0,
     reason |-> <<symbol_reason>>]

apply_trending_weak_penalty(signal, regime) ==
    IF regime = "trending_weak" /\ signal.signal # "HOLD"
    THEN [signal EXCEPT
            !.confidence = Max(0, @ - TRENDING_WEAK_CONFIDENCE_PENALTY),
            !.reason = Append(@, "trending_weak penalty")]
    ELSE signal

\* choppy: ATR ratio above its threshold with ADX under the ceiling
apply_choppy_filter(signal, choppy) ==
    IF ~CHOPPY_FILTER_ENABLED THEN signal
    ELSE IF choppy
    THEN [signal EXCEPT !.confidence = Max(0, @ - CHOPPY_CONFIDENCE_PENALTY),
                        !.reason = Append(@, "choppy penalty")]
    ELSE signal

Aligned(signal, htf) == IF signal.signal = "BUY" THEN htf.bull ELSE htf.bear
Opposed(signal, htf) == IF signal.signal = "BUY" THEN htf.bear ELSE htf.bull

\* A plausible slip: the boost is added without the cap at 1.0.
apply_mtf_filter_uncapped(signal, htf) ==
    IF htf.bull + htf.bear + htf.neutral = 0 THEN signal
    ELSE IF Opposed(signal, htf) > 0 /\ Aligned(signal, htf) = 0
    THEN [signal EXCEPT !.signal = "HOLD", !.confidence = 0,
                        !.stop_loss = 0, !.take_profit = 0,
                        !.reason = <<"Blocked by higher TF">>]
    ELSE IF Aligned(signal, htf) > 0
    THEN [signal EXCEPT !.confidence = @ + 10 * Aligned(signal, htf),
                        !.reason = Append(@, "MTF aligned")]
    ELSE signal

apply_mtf_filter(signal, htf) ==
    IF htf.bull + htf.bear + htf.neutral = 0 THEN signal
    ELSE IF Opposed(signal, htf) > 0 /\ Aligned(signal, htf) = 0
    THEN [signal EXCEPT !.signal = "HOLD", !.confidence = 0,
                        !.stop_loss = 0, !.take_profit = 0,
                        !.reason = <<"Blocked by higher TF">>]
    ELSE IF Aligned(signal, htf) > 0
    THEN [signal EXCEPT
            !.confidence = Min(100, @ + 10 * Aligned(signal, htf)),
            !.reason = Append(@, "MTF aligned")]
    ELSE signal

\* max(0.0, min(1.0, confidence + adjustment)) with a reason part, or the
\* signal itself when the adjustment is 0
Adjusted(signal, adjustment, parts) ==
    IF adjustment # 0
    THEN [signal EXCEPT !.confidence = Max(0, Min(100, @ + adjustment)),
                        !.reason = @ \o parts]
    ELSE signal

apply_funding_filter(signal, funding_rate) ==
    IF signal.signal = "BUY"
    THEN IF funding_rate > 10
         THEN Adjusted(signal, -15, <<"Funding rate high, risky long">>)
         ELSE IF funding_rate < -5
         THEN Adjusted(signal, 8, <<"Funding favors longs">>)
         ELSE signal
    ELSE IF signal.signal = "SELL"
    THEN IF funding_rate < -10
         THEN Adjusted(signal, -15, <<"Funding rate low, risky short">>)
         ELSE IF funding_rate > 5
         THEN Adjusted(signal, 8, <<"Funding favors shorts">>)
         ELSE signal
    ELSE signal

apply_ob_filter(signal, imbalance) ==
    IF signal.signal = "BUY" /\ imbalance > 15
    THEN Adjusted(signal, 8, <<"Order book bullish">>)
    ELSE IF signal.signal = "BUY" /\ imbalance < -15
    THEN Adjusted(signal, -10, <<"Order book bearish">>)
    ELSE IF signal.signal = "SELL" /\ imbalance < -15
    THEN Adjusted(signal, 8, <<"Order book bearish">>)
    ELSE IF signal.signal = "SELL" /\ imbalance > 15
    THEN Adjusted(signal, -10, <<"Order book bullish">>)
    ELSE signal

apply_news_filter(signal, news_score) ==
    IF signal.signal = "BUY"
    THEN IF news_score > 30
         THEN Adjusted(signal, NEWS_SENTIMENT_WEIGHT, <<"News bullish">>)
         ELSE IF news_score < -30
         THEN Adjusted(signal, -NEWS_SENTIMENT_WEIGHT, <<"News bearish">>)
         ELSE signal
    ELSE IF signal.signal = "SELL"
    THEN IF news_score < -30
         THEN Adjusted(signal, NEWS_SENTIMENT_WEIGHT, <<"News bearish">>)
         ELSE IF news_score > 30
         THEN Adjusted(signal, -NEWS_SENTIMENT_WEIGHT, <<"News bullish">>)
         ELSE signal
    ELSE signal

\* the adjustments of the derivatives filter below the cascade block
\* (strategy_manager.py:415-444)
DerivativesAdjusted(signal, deriv) ==
    LET falling == deriv.oi_delta_pct < -2 /\ signal.strategy = "breakout"
        rising  == /\ ~falling
                   /\ deriv.oi_delta_pct > 2
                   /\ \/ signal.signal = "BUY"  /\ deriv.oi_direction = "bullish"
                      \/ signal.signal = "SELL" /\ deriv.oi_direction = "bearish"
        crowded == /\ Abs(deriv.funding_zscore) > FUNDING_ZSCORE_THRESHOLD
                   /\ \/ signal.signal = "BUY"  /\ deriv.funding_zscore > 0
                      \/ signal.signal = "SELL" /\ deriv.funding_zscore < 0
        adjustment == (IF falling THEN -15 ELSE IF rising THEN 10 ELSE 0)
                      + (IF crowded THEN -12 ELSE 0)
        parts == (IF falling THEN <<"OI falling, weak breakout">>
                  ELSE IF rising THEN <<"OI rising, conviction">> ELSE <<>>)
                 \o (IF crowded THEN <<"Crowded funding">> ELSE <<>>)
    IN  Adjusted(signal, adjustment, parts)

\* A plausible slip: a liquidation cascade is treated like the other
\* derivatives readings and does not block.
apply_derivatives_filter_nocascade(signal, deriv) ==
    DerivativesAdjusted(signal, deriv)

apply_derivatives_filter(signal, deriv) ==
    IF deriv.is_cascade
    THEN [signal EXCEPT !.signal = "HOLD", !.confidence = 0,
                        !.stop_loss = 0, !.take_profit = 0,
                        !.reason = <<"Blocked: liquidation cascade">>]
    ELSE DerivativesAdjusted(signal, deriv)

\* the stages of get_signal that follow strategy.analyze, in the order of
\* the code (strategy_manager.py:74-108); k is the data get_signal was given
Stage(i, signal, regime, k) ==
    CASE i = 1 -> apply_trending_weak_penalty(signal, regime)
      [] i = 2 -> IF signal.signal # "HOLD" /\ signal.strategy = "momentum"
                  THEN apply_choppy_filter(signal, k.choppy) ELSE signal
      [] i = 3 -> IF signal.signal # "HOLD" /\ k.htf.present
                  THEN apply_mtf_filter(signal, k.htf) ELSE signal
      [] i = 4 -> IF signal.signal # "HOLD" /\ k.funding.present
                  THEN apply_funding_filter(signal, k.funding.rate) ELSE signal
      [] i = 5 -> IF signal.signal # "HOLD" /\ Abs(k.ob_imbalance) > 5
                  THEN apply_ob_filter(signal, k.ob_imbalance) ELSE signal
      [] i = 6 -> IF signal.signal # "HOLD" /\ Abs(k.news_score) > 10
                  THEN apply_news_filter(signal, k.news_score) ELSE signal
      [] i = 7 -> IF signal.signal # "HOLD" /\ k.deriv.present
                     /\ DERIVATIVES_ENABLED
                  THEN apply_derivatives_filter(signal, k.deriv) ELSE signal

\* the signals after stages i..7, starting from `signal`
RECURSIVE RunStages(_, _, _, _)
RunStages(i, signal, regime, k) ==
    IF i > 7 THEN <<>>
    ELSE LET out == Stage(i, signal, regime, k)
         IN  <<out>> \o RunStages(i + 1, out, regime, k)

\* the regime-change wait guard (strategy_manager.py:50-68): the manager
\* state after its bookkeeping, and whether the call is answered with HOLD
\* A plausible slip: the wait lasts one bar too long.
WaitGuard_inclusive(m, symbol, regime, bar_index, wait_bars) ==
    IF wait_bars > 0 /\ bar_index > 0
    THEN LET prev_regime == m.last_regime[symbol]
             m2 == [m EXCEPT
                      !.regime_change_bar[symbol] =
                          IF prev_regime # NoRegime /\ prev_regime # regime
                          THEN bar_index ELSE @,
                      !.last_regime[symbol] = regime]
             change_bar == IF m2.regime_change_bar[symbol] = NoBar
                           THEN -wait_bars ELSE m2.regime_change_bar[symbol]
         IN  [sm |-> m2, hold |-> bar_index - change_bar <= wait_bars]
    ELSE [sm |-> m, hold |-> FALSE]

WaitGuard(m, symbol, regime, bar_index, wait_bars) ==
    IF wait_bars > 0 /\ bar_index > 0
    THEN LET prev_regime == m.last_regime[symbol]
             m2 == [m EXCEPT
                      !.regime_change_bar[symbol] =
                          IF prev_regime # NoRegime /\ prev_regime # regime
                          THEN bar_index ELSE @,
                      !.last_regime[symbol] = regime]
             change_bar == IF m2.regime_change_bar[symbol] = NoBar
                           THEN -wait_bars ELSE m2.regime_change_bar[symbol]
         IN  [sm |-> m2, hold |-> bar_index - change_bar < wait_bars]
    ELSE [sm |-> m, hold |-> FALSE]

\* get_signal for the data k = [regime, raw, choppy, htf, funding,
\* ob_imbalance, news_score, deriv]: k.regime is what the analyzer classifies
\* and k.raw what the regime's strategy returns for the candles.  The result
\* carries the signal as returned by analyze and after each stage.
get_signal(m, symbol, k, bar_index, wait_bars) ==
    LET confirmed == IF k.regime = "trending" /\ k.htf.present
                        /\ MTF_REGIME_CONFIRMATION
                     THEN confirm_regime(m, k.regime, k.htf, symbol)
                     ELSE [regime |-> k.regime, sm |-> m]
        guard     == WaitGuard(confirmed.sm, symbol, confirmed.regime,
                               bar_index, wait_bars)
        analyzed  == [k.raw EXCEPT !.strategy = StrategyFor(confirmed.regime)]
        stages    == <<analyzed>> \o RunStages(1, analyzed, confirmed.regime, k)
    IN  IF guard.hold
        THEN [signal |-> HoldSignal("Regime change wait"),
              regime |-> confirmed.regime, sm |-> guard.sm, stages |-> <<>>]
        ELSE [signal |-> stages[Len(stages)], regime |-> confirmed.regime,
              sm |-> guard.sm, stages |-> stages]

\* what a strategy's analyze returns: a direction with its confidence and
\* price levels, or HOLD with confidence 0 (momentum.py:134-158 and alike)
RawSignal(direction, confidence) ==
    IF direction = "HOLD"
    THEN [signal |-> "HOLD", confidence |-> 0, strategy |-> "",
          entry_price |-> 8000, stop_loss |-> 0, take_profit |-> 0,
          reason |-> <<"No clear signal">>]
    ELSE [signal |-> direction, confidence |-> confidence, strategy |-> "",
          entry_price |-> 8000,
          stop_loss   |-> IF direction = "BUY" THEN 7840 ELSE 8160,
          take_profit |-> IF direction = "BUY" THEN 8320 ELSE 7680,
          reason |-> <<"analyze">>]

NoHigherTF    == [present |-> FALSE, adx |-> 0, bull |-> 0, bear |-> 0,
                  neutral |-> 0]
NoFunding     == [present |-> FALSE, rate |-> 0]
NoDerivatives == [present |-> FALSE, oi_delta_pct |-> 0,
                  oi_direction |-> "neutral", funding_zscore |-> 0,
                  is_cascade |-> FALSE]

MarketInit ==
    [ regime |-> "ranging", raw |-> RawSignal("HOLD", 0), choppy |-> FALSE,
      htf |-> NoHigherTF, funding |-> NoFunding, ob_imbalance |-> 0,
      news_score |-> 0, deriv |-> NoDerivatives ]

-----------------------------------------------------------------------------
(* Portfolio and Position (src/core/portfolio.py).  Prices and money are
   whole dollars; the inputs of the bot model are chosen so that every
   distance and margin below is a whole number. *)

\* STRATEGY_SL_ATR_MULTIPLIER.get(strategy, STOP_LOSS_ATR_MULTIPLIER), in tenths
StrategySLMultiplier(strategy) ==
    CASE strategy = "momentum"       -> 15
      [] strategy = "mean_reversion" -> 8
      [] strategy = "breakout"       -> 15
      [] OTHER                       -> STOP_LOSS_ATR_MULTIPLIER

\* self.pairs, in the order the tick walks them
Pairs == <<"BTC", "SOL">>

NoPosition ==
    [ open |-> FALSE, side |-> "", entry_price |-> 0, quantity |-> 0,
      stop_loss |-> 0, take_profit |-> 0, strategy |-> "", confidence |-> 0,
      initial_risk |-> 0, highest_price |-> 0, lowest_price |-> 0,
      trailing_activated |-> FALSE, sl_atr_multiplier |-> 0,
      entry_regime |-> "", partial_closed |-> FALSE ]

\* Position(...) with __post_init__; sl_atr_multiplier and entry_regime are
\* the keyword arguments bot.py:558-559 and engine.py:838-839 pass
Position(side, entry_price, quantity, stop_loss, take_profit, strategy, confidence, sl_atr_multiplier, entry_regime) ==
    [ open |-> TRUE, side |-> side, entry_price |-> entry_price,
      quantity |-> quantity, stop_loss |-> stop_loss,
      take_profit |-> take_profit, strategy |-> strategy,
      confidence |-> confidence,
      initial_risk |-> IF stop_loss > 0 THEN Abs(entry_price - stop_loss)
                       ELSE 0,
      highest_price |-> entry_price, lowest_price |-> entry_price,
      trailing_activated |-> FALSE,
      sl_atr_multiplier |-> sl_atr_multiplier,
      entry_regime |-> entry_regime, partial_closed |-> FALSE ]

\* Portfolio.positions is a dict: `positions` holds the values and `order`
\* the keys in insertion order
PortfolioInit ==
    [ positions |-> [s \in Symbols |-> NoPosition], order |-> <<>> ]

add_position(p, symbol, position) ==
    [ positions |-> [s \in Symbols |->
                       IF s = symbol THEN position ELSE p.positions[s]],
      order     |-> IF p.positions[symbol].open THEN p.order
                    ELSE Append(p.order, symbol) ]

remove_position(p, symbol) ==
    [ positions |-> [s \in Symbols |->
                       IF s = symbol THEN NoPosition ELSE p.positions[s]],
      order     |-> SelectSeq(p.order, LAMBDA s : s # symbol) ]

open_position_count(p) == Len(p.order)

unrealized_pnl(position, current_price) ==
    IF position.side = "buy"
    THEN (current_price - position.entry_price) * position.quantity
    ELSE (position.entry_price - current_price) * position.quantity

\* margin locked plus unrealized PnL of one position
position_value(position, price) ==
    (position.entry_price * position.quantity) \div LEVERAGE
        + unrealized_pnl(position, price)

calculate_portfolio_value(p, usdt_balance, prices) ==
    usdt_balance
        + Sum([i \in 1..Len(p.order) |->
                 position_value(p.positions[p.order[i]], prices[p.order[i]])])

-----------------------------------------------------------------------------
(* TradingBot (src/core/bot.py).  w is the bot's mutable world: its risk
   manager, portfolio, strategy manager, adaptive tracker and the
   adaptive_trades table. *)

BotInit == [mode |-> "new", adaptive |-> FALSE, days |-> 0]

\* _close_position: the exchange closes the position, the risk manager is
\* told about a stop-loss or a win, and with the adaptive system on the
\* trade is fed to the tracker and persisted
close_position(w, symbol, close_price, reason, bar_index, adaptive) ==
    LET position == w.pf.positions[symbol]
        trade == [strategy |-> position.strategy,
                  pnl      |-> unrealized_pnl(position, close_price),
                  risk     |-> Abs(position.entry_price - position.stop_loss)
                                 * position.quantity]
    IN  IF ~position.open THEN w
        ELSE [w EXCEPT
                !.pf = remove_position(@, symbol),
                !.rm = IF reason = "stop_loss"
                       THEN register_stop_loss(@, symbol, bar_index)
                       ELSE IF reason \in {"take_profit", "trailing_stop",
                                           "momentum_decay"}
                       THEN register_win(@, symbol, bar_index)
                       ELSE @,
                !.tr = IF adaptive THEN record_trade(@, trade) ELSE @,
                !.db = IF adaptive THEN Append(@, trade) ELSE @]

\* a recovered position (stop or target 0) gets emergency levels from a
\* 1.5% ATR estimate (bot.py:576-584)
WithEmergencyStops(position) ==
    LET atr_estimate == (position.entry_price * 15) \div 1000
    IN  IF position.stop_loss > 0 /\ position.take_profit > 0 THEN position
        ELSE IF position.side = "buy"
        THEN [position EXCEPT
                !.stop_loss    = position.entry_price - 2 * atr_estimate,
                !.take_profit  = position.entry_price + 3 * atr_estimate,
                !.initial_risk = 2 * atr_estimate]
        ELSE [position EXCEPT
                !.stop_loss    = position.entry_price + 2 * atr_estimate,
                !.take_profit  = position.entry_price - 3 * atr_estimate,
                !.initial_risk = 2 * atr_estimate]

\* the close reason _check_open_positions decides for one position, "" for
\* none.  staircase is STAIRCASE_PROFIT_ENABLED, which settings.py leaves to
\* its default; MOMENTUM_DECAY_EXIT is off in settings.py, so that branch is
\* not taken.
ExitReason(position, current_price, staircase) ==
    IF check_stop_loss(position.stop_loss, current_price, position.side)
    THEN (IF position.trailing_activated THEN "trailing_stop"
          ELSE "stop_loss")
    ELSE IF ~check_take_profit(position.take_profit, current_price,
                               position.side)
    THEN ""
    ELSE IF staircase /\ ~position.partial_closed THEN "staircase_partial"
    ELSE IF TRAILING_STOP_ENABLED /\ TRAILING_HYBRID
            /\ ~position.trailing_activated
    THEN ""
    ELSE IF ~TRAILING_STOP_ENABLED \/ ~TRAILING_HYBRID THEN "take_profit"
    ELSE ""

\* hybrid mode: the target hit activates trailing instead of closing
HybridActivated(position, current_price, staircase) ==
    IF /\ ~check_stop_loss(position.stop_loss, current_price, position.side)
       /\ check_take_profit(position.take_profit, current_price,
                            position.side)
       /\ ~(staircase /\ ~position.partial_closed)
       /\ TRAILING_STOP_ENABLED /\ TRAILING_HYBRID
       /\ ~position.trailing_activated
    THEN [position EXCEPT
            !.trailing_activated = TRUE,
            !.stop_loss     = position.take_profit,
            !.highest_price = IF position.side = "buy"
                              THEN Max(@, current_price) ELSE @,
            !.lowest_price  = IF position.side = "buy" THEN @
                              ELSE Min(@, current_price)]
    ELSE position

\* _update_trailing_stop, in its three steps
trail_distance(position) ==
    LET sl_mult == IF position.sl_atr_multiplier > 0
                   THEN position.sl_atr_multiplier
                   ELSE STOP_LOSS_ATR_MULTIPLIER
    IN  (position.initial_risk * TRAILING_STOP_ATR_MULTIPLIER) \div sl_mult

TrackExtreme(position, current_price) ==
    IF position.side = "buy"
    THEN [position EXCEPT !.highest_price = Max(@, current_price)]
    ELSE [position EXCEPT !.lowest_price  = Min(@, current_price)]

Breakeven(position) ==
    LET profit == IF position.side = "buy"
                  THEN position.highest_price - position.entry_price
                  ELSE position.entry_price - position.lowest_price
    IN  IF ~position.trailing_activated
           /\ profit >= BREAKEVEN_RR * position.initial_risk
        THEN [position EXCEPT
                !.trailing_activated = TRUE,
                !.stop_loss = IF position.side = "buy"
                              THEN Max(@, position.entry_price)
                              ELSE Min(@, position.entry_price)]
        ELSE position

Trail(position) ==
    IF ~position.trailing_activated THEN position
    ELSE IF position.side = "buy"
    THEN [position EXCEPT
            !.stop_loss = Max(@, position.highest_price
                                   - trail_distance(position))]
    ELSE [position EXCEPT
            !.stop_loss = Min(@, position.lowest_price
                                   + trail_distance(position))]

update_trailing_stop(position, current_price) ==
    IF position.initial_risk <= 0 THEN position
    ELSE Trail(Breakeven(TrackExtreme(position, current_price)))

\* one pass of the loop of _check_open_positions over a position: the close
\* reason and the position as the pass leaves it
CheckedPosition(position, current_price, staircase) ==
    LET levelled == WithEmergencyStops(position)
        reason   == ExitReason(levelled, current_price, staircase)
    IN  [reason   |-> reason,
         position |-> IF reason # "" THEN levelled
                      ELSE IF TRAILING_STOP_ENABLED
                      THEN update_trailing_stop(
                               HybridActivated(levelled, current_price,
                                               staircase),
                               current_price)
                      ELSE HybridActivated(levelled, current_price,
                                           staircase)]

\* _partial_close_position (bot.py:754-837, engine.py:534-620): half of the
\* quantity is closed at the target, the rest is kept with the stop at the
\* entry price and trailing switched on; the risk manager is told about a
\* win and with the adaptive system on the partial is fed to the tracker
partial_close_position(w, symbol, close_price, bar_index, adaptive) ==
    LET position      == w.pf.positions[symbol]
        qty_to_close  == position.quantity \div 2
        closed        == [position EXCEPT !.quantity = qty_to_close]
        remainder     ==
            [position EXCEPT
               !.quantity           = position.quantity - qty_to_close,
               !.partial_closed     = TRUE,
               !.trailing_activated = TRUE,
               !.stop_loss          = position.entry_price,
               !.highest_price = IF position.side = "buy"
                                 THEN Max(@, close_price) ELSE @,
               !.lowest_price  = IF position.side = "buy" THEN @
                                 ELSE Min(@, close_price)]
        trade == [strategy |-> position.strategy,
                  pnl      |-> unrealized_pnl(closed, close_price),
                  risk     |-> 0]
    IN  IF ~position.open \/ position.partial_closed THEN w
        ELSE [w EXCEPT
                !.pf = [positions |-> [s \in Symbols |->
                                         IF s = symbol THEN remainder
                                         ELSE w.pf.positions[s]],
                        order     |-> w.pf.order],
                !.rm = register_win(@, symbol, bar_index),
                !.tr = IF adaptive THEN record_trade(@, trade) ELSE @,
                !.db = IF adaptive THEN Append(@, trade) ELSE @]

\* the close of one symbol of symbols_to_close (bot.py:633-637)
CloseOne(w, symbol, close_price, reason, bar_index, adaptive) ==
    IF reason = "staircase_partial"
    THEN partial_close_position(w, symbol, close_price, bar_index, adaptive)
    ELSE close_position(w, symbol, close_price, reason, bar_index, adaptive)

RECURSIVE CloseAll(_, _, _, _, _, _)
CloseAll(w, symbols_to_close, reasons, prices, bar_index, adaptive) ==
    IF symbols_to_close = <<>> THEN w
    ELSE CHOOSE r \in
           { CloseAll(next, Tail(symbols_to_close), reasons, prices,
                      bar_index, adaptive) :
                next \in { CloseOne(w, Head(symbols_to_close),
                                          prices[Head(symbols_to_close)],
                                          reasons[Head(symbols_to_close)],
                                          bar_index, adaptive) } } : TRUE

check_open_positions(w, prices, bar_index, adaptive) ==
    LET checked == [s \in Symbols |->
                      CheckedPosition(w.pf.positions[s], prices[s],
                                      w.settings.staircase_profit_enabled)]
        looked  == [s \in Symbols |->
                      w.pf.positions[s].open /\ prices[s] > 0]
        after   == [s \in Symbols |->
                      IF looked[s] THEN checked[s].position
                      ELSE w.pf.positions[s]]
        symbols_to_close ==
            SelectSeq(w.pf.order,
                      LAMBDA s : looked[s] /\ checked[s].reason # "")
    IN  CloseAll([w EXCEPT !.pf.positions = after], symbols_to_close,
                 [s \in Symbols |-> checked[s].reason], prices, bar_index,
                 adaptive)

GateOrder ==
    << "cooldown", "frequency", "post_profit", "clustering", "validation",
       "correlation", "sizing" >>

\* signal.signal.value.lower()
Lower(direction) == IF direction = "BUY" THEN "buy" ELSE "sell"

\* the candidate c after a gate has been evaluated
Evaluated(c, gate, blocked) ==
    [c EXCEPT !.gates   = Append(@, [gate |-> gate, blocked |-> blocked]),
              !.outcome = IF blocked THEN "blocked" ELSE @]

WithFrequency(c, res) ==
    Evaluated([c EXCEPT !.rm = res.rm], "frequency", res.ret)

WithClustering(c, res) ==
    Evaluated([c EXCEPT !.rm = res.rm], "clustering", res.ret)

\* the data fetch and get_signal (bot.py:388-429); an empty candle frame
\* ends the evaluation
WithSignal(c, k, res) ==
    IF k.empty THEN [c EXCEPT !.outcome = "no_data"]
    ELSE [c EXCEPT !.sm = res.sm, !.signal = res.signal,
                   !.regime = res.regime]

WithValidation(c, res) ==
    Evaluated([c EXCEPT !.signal = res.signal], "validation", ~res.ret)

\* the validation written out in the adaptive branch (bot.py:463-474,
\* engine.py:750-762).  AdaptiveOverrides.rr_ratio is a float
\* (adaptive_controller.py:20, 65), so overrides.rr_ratio.get(...) raises
\* AttributeError once the three refusals are passed.
adaptive_validation(signal, overrides) ==
    LET adaptive_conf == IF signal.strategy \in Strategies
                         THEN overrides.min_confidence[signal.strategy]
                         ELSE Q(MIN_SIGNAL_CONFIDENCE, 100)
    IN  IF signal.signal = "HOLD" THEN "blocked"
        ELSE IF QLt(Q(signal.confidence, 100), adaptive_conf) THEN "blocked"
        ELSE IF signal.stop_loss <= 0 THEN "blocked"
        ELSE "error"

WithAdaptiveValidation(c, verdict) ==
    [Evaluated(c, "validation", verdict = "blocked") EXCEPT
        !.outcome = verdict]

WithSize(c, quantity, max_margin) ==
    Evaluated([c EXCEPT !.quantity = quantity, !.margin = max_margin],
              "sizing", QLe(quantity, QInt(0)))

\* the price of the fill: the order's average price.  A market order is
\* filled at or beyond the requested price; paper orders add 1 to 8 basis
\* points against the trade (exchange.py:186-191), the backtest 5
\* (engine.py:21, 807-811).
FillPrice(signal, slippage_bps) ==
    IF signal.signal = "BUY"
    THEN (signal.entry_price * (10000 + slippage_bps)) \div 10000
    ELSE (signal.entry_price * (10000 - slippage_bps)) \div 10000

\* the adaptive scaling of the quantity, the order and the position
\* (bot.py:511-562).  The exchange fills the whole units of the requested
\* quantity at the fill price, or nothing (k.fill = FALSE).
Opened(c, symbol, k, adaptive, overrides) ==
    LET size_scale == IF c.signal.strategy \in Strategies THEN
                          overrides.position_size_scale[c.signal.strategy]
                      ELSE QInt(1)
        quantity == IF adaptive
                    THEN QMul(c.quantity,
                              QMul(size_scale, overrides.leverage_scale))
                    ELSE c.quantity
        filled   == quantity.n \div quantity.d
    IN  IF ~k.fill \/ filled <= 0 THEN [c EXCEPT !.outcome = "no_order"]
        ELSE [c EXCEPT
                !.pf = add_position(@, symbol,
                          Position(Lower(c.signal.signal),
                                   FillPrice(c.signal, k.slippage_bps),
                                   filled,
                                   c.signal.stop_loss, c.signal.take_profit,
                                   c.signal.strategy, c.signal.confidence,
                                   StrategySLMultiplier(c.signal.strategy),
                                   c.regime)),
                !.rm = record_trade_opened(@),
                !.outcome = "opened"]

\* the statements of _analyze_and_trade in the order of the code
\* (bot.py:378-562, engine.py:709-843); c is the candidate so far
AnalyzeStep(i, c, symbol, k, bar_index, portfolio_value, adaptive, overrides) ==
    CASE i = 1 -> Evaluated(c, "cooldown",
                            check_cooldown(c.rm, symbol, bar_index))
      [] i = 2 -> WithFrequency(c, check_trade_frequency(c.rm, bar_index))
      [] i = 3 -> Evaluated(c, "post_profit",
                            check_post_profit_cooldown(c.rm, symbol, bar_index))
      [] i = 4 -> WithClustering(c, check_trade_clustering(c.rm, bar_index))
      [] i = 5 -> WithSignal(c, k, get_signal(c.sm, symbol, k, bar_index,
                                              REGIME_CHANGE_WAIT_BARS))
      [] i = 6 -> IF adaptive
                  THEN WithAdaptiveValidation(
                           c, adaptive_validation(c.signal, overrides))
                  ELSE WithValidation(c, validate_signal(c.signal))
      [] i = 7 -> Evaluated(c, "correlation",
                            check_correlation_exposure(Lower(c.signal.signal),
                                                       c.pf.positions))
      [] i = 8 -> WithSize(c, calculate_position_size(
                                  c.rm, c.signal, portfolio_value,
                                  c.signal.entry_price, c.regime),
                           allocated_margin(c.rm, c.signal, portfolio_value,
                                            c.regime))
      [] i = 9 -> Opened(c, symbol, k, adaptive, overrides)

\* A plausible slip: a blocking gate does not end the evaluation.
Returned_blockIgnored(c) == c.outcome \notin {"running", "blocked"}

\* the handler has returned (a gate blocked, an exception was caught, or
\* the order was placed)
Returned(c) == c.outcome # "running"

RECURSIVE RunAnalyze(_, _, _, _, _, _, _, _)
RunAnalyze(i, c, symbol, k, bar_index, portfolio_value, adaptive, overrides) ==
    IF i > 9 \/ Returned(c) THEN c
    ELSE CHOOSE r \in
           { RunAnalyze(i + 1, next, symbol, k, bar_index, portfolio_value,
                        adaptive, overrides) :
                next \in { AnalyzeStep(i, c, symbol, k, bar_index,
                                       portfolio_value, adaptive,
                                       overrides) } } : TRUE

Candidate(w) ==
    [ rm |-> w.rm, pf |-> w.pf, sm |-> w.sm,
      signal |-> HoldSignal("not analysed"), regime |-> NoRegime,
      quantity |-> QInt(0), margin |-> QInt(0), gates |-> <<>>,
      outcome |-> "running" ]

\* _analyze_and_trade for one symbol: the world afterwards, with the record
\* of the evaluation appended to w.evals
Recorded(w, symbol, c) ==
    [w EXCEPT
       !.rm = c.rm, !.pf = c.pf, !.sm = c.sm,
       !.evals = Append(@, [symbol |-> symbol, gates |-> c.gates,
                            outcome |-> c.outcome, signal |-> c.signal,
                            quantity |-> c.quantity, margin |-> c.margin,
                            rm_before |-> w.rm, rm_after |-> c.rm,
                            pf_before |-> w.pf, pf_after |-> c.pf])]

analyze_and_trade(w, symbol, k, bar_index, portfolio_value, adaptive) ==
    CHOOSE r \in
      { Recorded(w, symbol, c) :
           c \in { RunAnalyze(1, Candidate(w), symbol, k, bar_index,
                              portfolio_value, adaptive,
                              compute_overrides(w.tr)) } } : TRUE

\* the loop of _tick over self.pairs, from the i-th pair on
RECURSIVE AnalyzePairs(_, _, _, _, _, _)
AnalyzePairs(w, i, feeds, bar_index, total_value, adaptive) ==
    IF i > Len(Pairs) THEN w
    ELSE IF w.pf.positions[Pairs[i]].open
    THEN AnalyzePairs(w, i + 1, feeds, bar_index, total_value, adaptive)
    ELSE CHOOSE r \in
           { AnalyzePairs(next, i + 1, feeds, bar_index, total_value,
                          adaptive) :
                next \in { analyze_and_trade(w, Pairs[i], feeds[Pairs[i]],
                                             bar_index, total_value,
                                             adaptive) } } : TRUE

\* update_peak and _check_open_positions (bot.py:190-193)
AfterExits(w, total_value, prices, bar_index, adaptive) ==
    check_open_positions([w EXCEPT !.rm = update_peak(@, total_value)],
                         prices, bar_index, adaptive)

\* check_circuit_breakers (bot.py:196-198)
AfterBreakers(w, res) == [w EXCEPT !.rm = res.rm, !.can_trade = res.ret]

AfterAnalysis_ungated(w, feeds, bar_index, total_value, adaptive) ==
    AnalyzePairs(w, 1, feeds, bar_index, total_value, adaptive)

AfterAnalysis(w, feeds, bar_index, total_value, adaptive) ==
    IF w.can_trade
    THEN AnalyzePairs(w, 1, feeds, bar_index, total_value, adaptive)
    ELSE w

\* _tick with the tick counter already advanced to bar_index
\* check_circuit_breakers under the settings in force: the position cap
\* (risk_manager.py:185-188) is its last test, reads
\* settings.MAX_OPEN_POSITIONS when called and changes nothing
check_circuit_breakers_under(settings, r, portfolio_value, count) ==
    LET res == check_circuit_breakers(r, portfolio_value, 0)
    IN  IF ~res.ret THEN res
        ELSE [ret |-> count < settings.max_open_positions, rm |-> res.rm]

BreakersChecked(w, total_value) ==
    AfterBreakers(w, check_circuit_breakers_under(
                         w.settings, w.rm, total_value,
                         open_position_count(w.pf)))

tick(w, mode, adaptive, bar_index, usdt_balance, prices, feeds) ==
    IF usdt_balance = 0 /\ mode = "live" THEN w
    ELSE CHOOSE r \in
           { AfterAnalysis(checked, feeds, bar_index, total_value, adaptive) :
                total_value \in
                    { calculate_portfolio_value(w.pf, usdt_balance, prices) },
                checked \in
                    { BreakersChecked(
                          AfterExits(w, calculate_portfolio_value(
                                            w.pf, usdt_balance, prices),
                                     prices, bar_index, adaptive),
                          calculate_portfolio_value(w.pf, usdt_balance,
                                                    prices)) } } : TRUE

\* _sync_positions_from_exchange: the exchange's positions, as
\* [symbol, side, entry_price, contracts], become "recovered" positions
RECURSIVE sync_positions_from_exchange(_, _)
sync_positions_from_exchange(p, recovered) ==
    IF recovered = <<>> THEN p
    ELSE sync_positions_from_exchange(
             add_position(p, Head(recovered).symbol,
                          Position(Head(recovered).side,
                                   Head(recovered).entry_price,
                                   Head(recovered).contracts,
                                   0, 0, "recovered", 0, 0, "")),
             Tail(recovered))

-----------------------------------------------------------------------------
(* Initial state: the objects as constructed *)

NoCall == [op |-> "none"]

\* the settings as shipped (settings.py:53, 171)
Settings ==
    [wait_bars |-> REGIME_CHANGE_WAIT_BARS,
     max_open_positions |-> MAX_OPEN_POSITIONS,
     staircase_profit_enabled |-> FALSE]

NoHistory ==
    [s \in Symbols |->
        [prev |-> NoRegime, changed |-> NoBar,
         prev_counted |-> NoRegime, changed_counted |-> NoBar,
         below_run |-> 0]]

Constructed ==
    /\ bar = 0
    /\ rm = RiskManagerInit
    /\ obs = NoCall
    /\ sl_note = [s \in Symbols |-> [cd |-> 0, touched |-> FALSE]]
    /\ events = 0
    /\ tr = PerformanceTrackerInit
    /\ db = <<>>
    /\ sm = StrategyManagerInit
    /\ mkt = MarketInit
    /\ portfolio = PortfolioInit
    /\ bot = BotInit
    /\ hist = NoHistory
    /\ opened = [b \in 0..MaxFrequencyBar |-> 0]

Init == Constructed /\ cfg = Settings

-----------------------------------------------------------------------------
(* Cooldown bookkeeping, call by call (SpecCooldown) *)

CooldownNow(r) ==
    IF r.consecutive_losses >= MAX_CONSECUTIVE_LOSSES
    THEN COOLDOWN_BARS * 2 ELSE COOLDOWN_BARS

AdvanceBar ==
    /\ bar < MaxBar
    /\ bar' = bar + 1
    /\ obs' = [op |-> "bar"]
    /\ UNCHANGED <<rm, sl_note, events, notRisk>>

DoRegisterStopLoss(s) ==
    /\ events < MaxEvents
    /\ events' = events + 1
    /\ rm' = register_stop_loss(rm, s, bar)
    /\ obs' = [op |-> "register_stop_loss", sym |-> s]
    /\ sl_note' = [t \in Symbols |->
                     IF t = s
                     THEN [cd |-> CooldownNow(rm'), touched |-> FALSE]
                     ELSE [sl_note[t] EXCEPT !.touched = TRUE]]
    /\ UNCHANGED <<bar, notRisk>>

DoRegisterWin(s) ==
    /\ events < MaxEvents
    /\ events' = events + 1
    /\ rm' = register_win(rm, s, bar)
    /\ obs' = [op |-> "register_win", sym |-> s]
    /\ sl_note' = [t \in Symbols |-> [sl_note[t] EXCEPT !.touched = TRUE]]
    /\ UNCHANGED <<bar, notRisk>>

DoCheckCooldown(s) ==
    /\ obs' = [op |-> "check_cooldown", sym |-> s, bar |-> bar,
               ret |-> check_cooldown(rm, s, bar)]
    /\ UNCHANGED <<bar, rm, sl_note, events, notRisk>>

NextCooldown ==
    \/ AdvanceBar
    \/ \E s \in Symbols : DoRegisterStopLoss(s)
    \/ \E s \in Symbols : DoRegisterWin(s)
    \/ \E s \in Symbols : DoCheckCooldown(s)

SpecCooldown == Init /\ [][NextCooldown]_vars

\* The check just made, on a symbol that has a registered stop-loss.
CooldownChecked ==
    /\ obs.op = "check_cooldown"
    /\ rm.last_stop_loss_bar[obs.sym] # NoBar

BarsSince == obs.bar - rm.last_stop_loss_bar[obs.sym]

\* C1 as claimed: a stop-loss registered at bar b blocks the symbol for exactly
\* the cooldown chosen when it was registered (cooldown_bars, or twice that if
\* consecutive_losses had reached max_consecutive_losses), whatever stop-losses
\* and wins are registered on any symbol in between.
C1_AsClaimed ==
    CooldownChecked => (obs.ret <=> BarsSince < sl_note[obs.sym].cd)

\* C1 amended: check_cooldown blocks exactly while bars-since-stop-loss is below
\* cooldown_bars, doubled while consecutive_losses >= max_consecutive_losses at
\* the time of the check. With nothing registered in between this is exactly
\* the cooldown in force at registration (tradeable again at b + cooldown_bars,
\* resp. b + 2*cooldown_bars); in every case the block lasts at least
\* cooldown_bars and fewer than 2*cooldown_bars + 1 bars.
C1_Cooldown ==
    /\ (obs.op = "check_cooldown" /\ rm.last_stop_loss_bar[obs.sym] = NoBar)
          => ~obs.ret
    /\ CooldownChecked =>
          /\ obs.ret <=> (BarsSince <
                (IF rm.consecutive_losses >= MAX_CONSECUTIVE_LOSSES
                 THEN 2 * COOLDOWN_BARS ELSE COOLDOWN_BARS))
          /\ ~sl_note[obs.sym].touched
                => (obs.ret <=> BarsSince < sl_note[obs.sym].cd)
          /\ BarsSince < COOLDOWN_BARS => obs.ret
          /\ obs.ret => BarsSince < 2 * COOLDOWN_BARS

\* Reached: a doubled cooldown, nothing registered since, and the symbol is
\* tradeable again exactly 2*cooldown_bars bars after its stop-loss.
C1_Witness ==
    /\ CooldownChecked
    /\ ~sl_note[obs.sym].touched
    /\ sl_note[obs.sym].cd = 2 * COOLDOWN_BARS
    /\ BarsSince = 2 * COOLDOWN_BARS
    /\ ~obs.ret

-----------------------------------------------------------------------------
(* Circuit breakers, call by call (SpecBreaker) *)

PortfolioValues == {0, 40, 65, 70, 87, 100}
PositionCounts  == {0, MAX_OPEN_POSITIONS}

Breaker(r) ==
    [ halted |-> r.trading_halted, reason |-> r.halt_reason,
      daily  |-> r.daily_starting_value, peak |-> r.peak_portfolio_value ]

DoResetDaily(v) ==
    /\ v > 0                        \* bot.py:164 resets only on a value > 0
    /\ rm' = reset_daily(rm, v)
    /\ obs' = [op |-> "reset_daily", pv |-> v]
    /\ UNCHANGED <<bar, sl_note, events, notRisk>>

DoUpdatePeak(v) ==
    /\ rm' = update_peak(rm, v)
    /\ obs' = [op |-> "update_peak", pv |-> v]
    /\ UNCHANGED <<bar, sl_note, events, notRisk>>

DoCheckCircuitBreakers(v, n) ==
    LET res == check_circuit_breakers(rm, v, n)
    IN  /\ rm' = res.rm
        /\ obs' = [op |-> "check_circuit_breakers", pv |-> v, n |-> n,
                   ret |-> res.ret, pre |-> Breaker(rm)]
        /\ UNCHANGED <<bar, sl_note, events, notRisk>>

NextBreaker ==
    \/ \E v \in PortfolioValues : DoResetDaily(v)
    \/ \E v \in PortfolioValues : DoUpdatePeak(v)
    \/ \E v \in PortfolioValues, n \in PositionCounts :
          DoCheckCircuitBreakers(v, n)

SpecBreaker == Init /\ [][NextBreaker]_vars

\* portfolio value v is plausible against the day's start d (no API glitch)
Plausible(v, d) == v > 0 /\ ~(d > 0 /\ 2 * v < d)

DailyLossReached(v, d) == d > 0 /\ 100 * (d - v) >= DAILY_LOSS_LIMIT_PCT * d

\* C2: a check made while not halted, with daily_starting_value > 0 and a
\* plausible portfolio value whose daily loss is >= daily_loss_limit_pct, halts
\* trading with the reason "Daily loss limit ..." and returns false; from then on
\* every step that is not reset_daily keeps the halt, and every
\* check_circuit_breakers call returns false whatever value it is given.
C2_DailyLossHalt ==
    [][ /\ ( /\ obs'.op = "check_circuit_breakers"
             /\ ~rm.trading_halted
             /\ Plausible(obs'.pv, rm.daily_starting_value)
             /\ DailyLossReached(obs'.pv, rm.daily_starting_value) )
          => ( /\ rm'.trading_halted
               /\ rm'.halt_reason = DailyLossReason
               /\ ~obs'.ret )
        /\ ( /\ rm.trading_halted
             /\ rm.halt_reason = DailyLossReason
             /\ obs'.op # "reset_daily" )
          => ( /\ rm'.trading_halted
               /\ rm'.halt_reason = DailyLossReason
               /\ (obs'.op = "check_circuit_breakers" => ~obs'.ret) )
      ]_vars

\* Reached: 87 against a day's start of 100 tripped the daily-loss breaker, and
\* a later check given a healthy 100 was refused.
C2_Witness ==
    /\ obs.op = "check_circuit_breakers"
    /\ obs.pre.halted /\ obs.pre.reason = DailyLossReason
    /\ obs.pre.daily = 100 /\ obs.pv = 100 /\ obs.n = 0
    /\ ~obs.ret

\* C3 as claimed: once the drawdown breaker has halted trading, no risk-manager
\* operation, reset_daily included, clears the halt flag or its reason.
C3_DrawdownHaltPermanent ==
    [][ (rm.trading_halted /\ rm.halt_reason = DrawdownReason)
          => (rm'.trading_halted /\ rm'.halt_reason = DrawdownReason) ]_vars

-----------------------------------------------------------------------------
(* Position sizing, call by call (SpecSizing) *)

Directions       == {"BUY", "SELL", "HOLD"}
SizingStrategies == {"momentum", ""}       \* "" has no per-strategy minimum
Confidences      == {70, 80, 100}          \* hundredths
SizingPrices     == {100}
SizingStops      == {90, 99, 100, 110}
SizingValues     == {1, 9, 87}
SizingPeaks      == {87, 100}
SizingRegimes    == {"volatile", "ranging"}

DoCalculatePositionSize(d, st, c, price, stop, v, regime) ==
    LET sig == [signal |-> d, confidence |-> c, strategy |-> st,
                entry_price |-> price, stop_loss |-> stop]
    IN  /\ obs' = [op |-> "calculate_position_size", sig |-> sig, pv |-> v,
                   price |-> price, regime |-> regime,
                   margin |-> allocated_margin(rm, sig, v, regime),
                   ret |-> calculate_position_size(rm, sig, v, price, regime)]
        /\ UNCHANGED <<bar, rm, sl_note, events, notRisk>>

NextSizing ==
    \/ \E v \in SizingPeaks : DoUpdatePeak(v)
    \/ \E d \in Directions, st \in SizingStrategies, c \in Confidences,
          price \in SizingPrices, stop \in SizingStops, v \in SizingValues,
          regime \in SizingRegimes :
          DoCalculatePositionSize(d, st, c, price, stop, v, regime)

SpecSizing == Init /\ [][NextSizing]_vars

Sized == obs.op = "calculate_position_size"

StopDistance == Abs(obs.price - obs.sig.stop_loss)

\* C5: the quantity returned by calculate_position_size loses at most the
\* allocated margin at the stop: q * |price - stop_loss| <= max_margin, where
\* max_margin is portfolio_value * max_position_pct after the volatile-regime,
\* confidence and drawdown scalings (so at most portfolio_value *
\* max_position_pct); q is 0 for HOLD, for a stop distance of 0 and when the
\* notional q * price is below the minimum.
C5_LossAtStopWithinMargin ==
    Sized =>
      /\ QLe(QMul(obs.ret, QInt(StopDistance)), obs.margin)
      /\ QLe(obs.margin, Q(obs.pv * MAX_POSITION_PCT, 100))
      /\ QLe(QInt(0), obs.ret)
      /\ (obs.sig.signal = "HOLD" \/ StopDistance = 0) => obs.ret.n = 0
      /\ obs.ret.n # 0
            => QLe(QInt(MIN_NOTIONAL), QMul(obs.ret, QInt(obs.price)))

\* Reached: a volatile-regime SELL sized under a drawdown above 10%, with a stop
\* 10% away, where the stop-distance cap (not the notional) decides the
\* quantity and the loss at the stop equals the allocated margin.
C5_Witness ==
    /\ Sized
    /\ obs.sig.signal = "SELL" /\ obs.regime = "volatile"
    /\ obs.pv = 87 /\ rm.peak_portfolio_value = 100
    /\ obs.sig.confidence = 80 /\ obs.sig.strategy = "momentum"
    /\ StopDistance = 10 /\ obs.price = 100
    /\ obs.ret.n > 0
    /\ QMul(obs.ret, QInt(StopDistance)) = obs.margin
    /\ QLt(obs.margin, Q(obs.pv * MAX_POSITION_PCT, 100))

-----------------------------------------------------------------------------
(* Adaptive tracker and controller, call by call (SpecAdaptive) *)

TradeKinds ==
    { [strategy |-> "momentum", pnl |->  3, risk |-> 1],
      [strategy |-> "momentum", pnl |-> -1, risk |-> 1],
      [strategy |-> "breakout", pnl |->  1, risk |-> 1],
      [strategy |-> "breakout", pnl |-> -2, risk |-> 0] }

AllMetrics(t) ==
    [ strategy |-> [s \in Strategies |-> get_strategy_metrics(t, s)],
      overall  |-> get_overall_metrics(t) ]

\* TradingBot._close_position: the closed trade is fed to the tracker and
\* saved to the adaptive_trades table
RecordClosedTrade(k) ==
    /\ Len(db) < MaxTrades
    /\ tr' = record_trade(tr, k)
    /\ db' = Append(db, k)
    /\ obs' = [op |-> "record_trade"]
    /\ UNCHANGED notAdaptive

DoComputeOverrides ==
    /\ obs' = [op |-> "compute_overrides", ret |-> compute_overrides(tr)]
    /\ UNCHANGED <<adaptiveVars, notAdaptive>>

\* TradingBot.start after a restart: a fresh tracker is loaded from the
\* persisted history
Restart ==
    /\ tr' = load_state(PerformanceTrackerInit,
                        load_adaptive_trades(db, Lookback))
    /\ obs' = [op |-> "restart", before |-> AllMetrics(tr),
               after |-> AllMetrics(tr')]
    /\ UNCHANGED <<db, notAdaptive>>

NextAdaptive ==
    \/ \E k \in TradeKinds : RecordClosedTrade(k)
    \/ DoComputeOverrides
    \/ Restart

SpecAdaptive == Init /\ [][NextAdaptive]_vars

Between(lo, x, hi) == QLe(lo, x) /\ QLe(x, hi)

\* C6: whatever trades were recorded (empty windows, windows without a losing
\* trade where profit_factor is +inf, long streaks), compute_overrides returns
\* every per-strategy size scale in [0.15, 2.0], leverage_scale in
\* [0.6, 1.0], sl_atr_multiplier in [1.2, 2.0] and rr_ratio in [1.5, 2.5].
C6_OverridesBounded ==
    obs.op = "compute_overrides" =>
      /\ \A s \in Strategies :
            Between(Q(15, 100), obs.ret.position_size_scale[s], QInt(2))
      /\ Between(Q(6, 10), obs.ret.leverage_scale, QInt(1))
      /\ Between(Q(12, 10), obs.ret.sl_atr_multiplier, QInt(2))
      /\ Between(Q(15, 10), obs.ret.rr_ratio, Q(25, 10))

\* Reached: momentum has only winning trades (profit_factor +inf) on a streak
\* of at least 4, so its scale 2.0 * 1.25 * 1.2 is cut back to 2.0; breakout
\* has an empty window and keeps 1.0; the achieved R:R of 3 lifts rr_ratio.
C6_Witness ==
    /\ obs.op = "compute_overrides"
    /\ get_strategy_metrics(tr, "momentum").pf_inf
    /\ get_strategy_metrics(tr, "momentum").current_streak >= 4
    /\ QLt(QInt(2), RawSizeScale(get_strategy_metrics(tr, "momentum")))
    /\ obs.ret.position_size_scale["momentum"] = QInt(2)
    /\ tr.trades["breakout"] = <<>>
    /\ obs.ret.position_size_scale["breakout"] = QInt(1)
    /\ QLt(QInt(REWARD_RISK_RATIO), obs.ret.rr_ratio)

\* C9: reloading the persisted history (the last `lookback` rows, oldest
\* first) into a fresh tracker gives, for every strategy and overall, the
\* StrategyMetrics the live tracker had before the restart.
C9_RoundTrip == obs.op = "restart" => obs.after = obs.before

-----------------------------------------------------------------------------
(* Signal generation: the data sources move, get_signal is called
   (SpecSignal) *)

HigherTF(adx, bull, bear) ==
    [present |-> TRUE, adx |-> adx, bull |-> bull, bear |-> bear,
     neutral |-> IF bull + bear = 0 THEN 1 ELSE 0]

Derivatives(oi_delta_pct, oi_direction, funding_zscore, is_cascade) ==
    [present |-> TRUE, oi_delta_pct |-> oi_delta_pct,
     oi_direction |-> oi_direction, funding_zscore |-> funding_zscore,
     is_cascade |-> is_cascade]

SignalRegimes  == {"trending", "ranging", "volatile"}
SignalRaws     == {RawSignal("HOLD", 0)} \cup
                  {RawSignal(d, c) : d \in {"BUY", "SELL"}, c \in {5, 95}}
SignalHTFs     == {NoHigherTF} \cup
                  {HigherTF(a, t[1], t[2]) :
                      a \in {10, 20, 30},
                      t \in {<<0, 0>>, <<MaxAlignedTFs, 0>>, <<0, 1>>}}
SignalFundings == {NoFunding, [present |-> TRUE, rate |-> -10000],
                   [present |-> TRUE, rate |-> 10000]}
SignalOBs      == {-20, 0, 20}
SignalNews     == {0, 50}
SignalDerivs   == {NoDerivatives,
                   Derivatives(3, "bullish", 3, TRUE),
                   Derivatives(-3, "bullish", 3, FALSE),
                   Derivatives(3, "bullish", -3, FALSE),
                   Derivatives(3, "bullish", 3, FALSE)}

\* the candles move: the analyzer's regime and the strategy's raw signal
CandlesMove(r, raw) ==
    /\ <<r, raw>> # <<mkt.regime, mkt.raw>>
    /\ mkt' = [mkt EXCEPT !.regime = r, !.raw = raw]
    /\ obs' = [op |-> "market"]
    /\ UNCHANGED <<sm, notSignal>>

HigherTFMoves(h) ==
    /\ mkt' = [mkt EXCEPT !.htf = h]
    /\ obs' = [op |-> "market"]
    /\ UNCHANGED <<sm, notSignal>>

FundingMoves(f) ==
    /\ mkt' = [mkt EXCEPT !.funding = f]
    /\ obs' = [op |-> "market"]
    /\ UNCHANGED <<sm, notSignal>>

OrderBookMoves(i) ==
    /\ mkt' = [mkt EXCEPT !.ob_imbalance = i]
    /\ obs' = [op |-> "market"]
    /\ UNCHANGED <<sm, notSignal>>

NewsMoves(n) ==
    /\ mkt' = [mkt EXCEPT !.news_score = n]
    /\ obs' = [op |-> "market"]
    /\ UNCHANGED <<sm, notSignal>>

DerivativesMove(d) ==
    /\ mkt' = [mkt EXCEPT !.deriv = d]
    /\ obs' = [op |-> "market"]
    /\ UNCHANGED <<sm, notSignal>>

DoGetSignal(s) ==
    LET res == get_signal(sm, s, mkt, bar, REGIME_CHANGE_WAIT_BARS)
    IN  /\ res.sm.htf_rejection_count[s] <= MaxRejections
        /\ sm' = res.sm
        /\ obs' = [op |-> "get_signal", sym |-> s, ret |-> res.signal,
                   regime |-> res.regime, stages |-> res.stages]
        /\ UNCHANGED <<mkt, notSignal>>

NextSignal ==
    \/ \E r \in SignalRegimes, raw \in SignalRaws : CandlesMove(r, raw)
    \/ \E h \in SignalHTFs : HigherTFMoves(h)
    \/ \E f \in SignalFundings : FundingMoves(f)
    \/ \E i \in SignalOBs : OrderBookMoves(i)
    \/ \E n \in SignalNews : NewsMoves(n)
    \/ \E d \in SignalDerivs : DerivativesMove(d)
    \/ DoGetSignal("BTC")

SpecSignal == Init /\ [][NextSignal]_vars

GotSignal == obs.op = "get_signal"

\* C7: given a strategy confidence in [0, 1], the confidence is in [0, 1]
\* after the TRENDING_WEAK penalty and after each filter stage of get_signal
\* (choppy, multi-timeframe, funding, order book, news, derivatives), also for
\* a funding rate of +-1.0 and for any number of aligned timeframes.
C7_ConfidenceInRange ==
    GotSignal =>
      /\ \A i \in DOMAIN obs.stages :
            obs.stages[i].confidence >= 0 /\ obs.stages[i].confidence <= 100
      /\ obs.ret.confidence >= 0 /\ obs.ret.confidence <= 100

\* Reached: a BUY at 0.95 in a weak trend is cut to 0.87, lifted by
\* MaxAlignedTFs aligned timeframes to the cap 1.0 (not 1.17), cut to 0.85 by
\* a funding rate of +1.0 and lifted back to the cap by order book and news.
C7_Witness ==
    /\ GotSignal
    /\ obs.regime = "trending_weak"
    /\ mkt.raw = RawSignal("BUY", 95)
    /\ mkt.htf.bull = MaxAlignedTFs
    /\ mkt.funding = [present |-> TRUE, rate |-> 10000]
    /\ obs.stages[2].confidence = 87
    /\ obs.stages[4].confidence = 100
    /\ obs.stages[5].confidence = 85
    /\ obs.stages[6].confidence = 93
    /\ obs.stages[7].confidence = 100

\* C8: when get_signal is given a derivatives snapshot with is_cascade true
\* (derivatives filtering enabled), it returns HOLD with confidence 0,
\* whatever the regime, the strategy, the raw confidence and the earlier
\* adjustments.
C8_CascadeHolds ==
    (GotSignal /\ DERIVATIVES_ENABLED /\ mkt.deriv.present
       /\ mkt.deriv.is_cascade)
      => (obs.ret.signal = "HOLD" /\ obs.ret.confidence = 0)

\* Reached: a cascade blocks a BUY that all earlier stages had lifted to
\* confidence 1.0.
C8_Witness ==
    /\ GotSignal /\ mkt.deriv.present /\ mkt.deriv.is_cascade
    /\ mkt.raw = RawSignal("BUY", 95)
    /\ obs.stages[7].signal = "BUY" /\ obs.stages[7].confidence = 100
    /\ obs.ret.signal = "HOLD" /\ obs.ret.confidence = 0
    /\ obs.ret.reason = <<"Blocked: liquidation cascade">>

-----------------------------------------------------------------------------
(* The live bot, handler by handler (SpecBot): start, the daily reset of
   the run loop, and _tick.  The mode and the ADAPTIVE_ENABLED switch of
   the constructed bot are chosen when it starts; what the exchange and the
   data sources return is drawn from the sets below. *)

StartBalances == {10000}
TickBalances  == {0, 4000, 10000}
TickPrices    == {7680, 8000, 8320}
PriceMaps     == {[s \in Symbols |-> p] : p \in TickPrices}
StartPrices   == {[s \in Symbols |-> 8000]}

\* what exchange.get_futures_positions returns at start-up
Recoverable ==
    { <<>>,
      << [symbol |-> "BTC", side |-> "sell", entry_price |-> 8000,
          contracts |-> 1] >>,
      << [symbol |-> "SOL", side |-> "buy", entry_price |-> 8000,
          contracts |-> 1] >> }

\* what the data sources return for one symbol on one tick
Feed(regime, raw, empty, fill) ==
    [ regime |-> regime, raw |-> raw, choppy |-> FALSE, htf |-> NoHigherTF,
      funding |-> NoFunding, ob_imbalance |-> 0, news_score |-> 0,
      deriv |-> NoDerivatives, empty |-> empty, fill |-> fill,
      slippage_bps |-> 0 ]

BuyFeed  == Feed("trending", RawSignal("BUY", 95), FALSE, TRUE)
SellFeed == Feed("volatile", RawSignal("SELL", 95), FALSE, TRUE)
HoldFeed == Feed("ranging", RawSignal("HOLD", 0), FALSE, TRUE)
WeakFeed == Feed("ranging", RawSignal("BUY", 5), FALSE, TRUE)
NoFeed   == Feed("ranging", RawSignal("HOLD", 0), TRUE, TRUE)
UnfilledFeed == Feed("trending", RawSignal("BUY", 95), FALSE, FALSE)
\* a BUY at full confidence with a stop 6.25% away, filled 5 basis points
\* above the requested price
WideStopFeed ==
    [Feed("trending",
          [RawSignal("BUY", 100) EXCEPT !.stop_loss = 7500,
                                        !.take_profit = 9000],
          FALSE, TRUE) EXCEPT !.slippage_bps = 5]

\* a SELL at full confidence with a stop 0.5% away, filled 5 basis points
\* below the requested price
TightStopFeed ==
    [Feed("volatile",
          [RawSignal("SELL", 100) EXCEPT !.stop_loss = 8040,
                                         !.take_profit = 7900],
          FALSE, TRUE) EXCEPT !.slippage_bps = 5]

FeedMaps ==
    { [s \in Symbols |-> BuyFeed],
      [s \in Symbols |-> IF s = "BTC" THEN BuyFeed ELSE SellFeed],
      [s \in Symbols |-> IF s = "BTC" THEN SellFeed ELSE BuyFeed],
      [s \in Symbols |-> IF s = "BTC" THEN HoldFeed ELSE WeakFeed],
      [s \in Symbols |-> IF s = "BTC" THEN NoFeed ELSE UnfilledFeed],
      [s \in Symbols |-> IF s = "BTC" THEN WideStopFeed ELSE TightStopFeed] }

World ==
    [ rm |-> rm, pf |-> portfolio, sm |-> sm, tr |-> tr, db |-> db,
      evals |-> <<>>, can_trade |-> FALSE, settings |-> cfg ]

\* TradingBot.start (bot.py:70-101)
Start(mode, adaptive, recovered, free_balance, prices) ==
    /\ bot.mode = "new"
    /\ mode = "live" \/ recovered = <<>>
    /\ portfolio' = IF mode = "live"
             THEN sync_positions_from_exchange(portfolio, recovered) ELSE portfolio
    /\ rm' = [rm EXCEPT
                !.peak_portfolio_value =
                    calculate_portfolio_value(portfolio', free_balance, prices),
                !.daily_starting_value =
                    calculate_portfolio_value(portfolio', free_balance, prices)]
    /\ tr' = IF adaptive /\ db # <<>>
             THEN load_state(tr, load_adaptive_trades(db, Lookback)) ELSE tr
    /\ bot' = [mode |-> mode, adaptive |-> adaptive, days |-> 0]
    /\ obs' = [op |-> "start"]
    /\ UNCHANGED <<bar, sl_note, events, db, sm, mkt, cfg, hist, opened>>

\* the daily reset of _run_loop (bot.py:160-170)
DailyReset(usdt_balance, prices) ==
    /\ bot.mode # "new"
    /\ bot.days < MaxDays
    /\ IF calculate_portfolio_value(portfolio, usdt_balance, prices) > 0
       THEN /\ rm' = reset_daily(rm, calculate_portfolio_value(
                                         portfolio, usdt_balance, prices))
            /\ bot' = [bot EXCEPT !.days = @ + 1]
       ELSE UNCHANGED <<rm, bot>>
    /\ obs' = [op |-> "daily_reset"]
    /\ UNCHANGED <<bar, portfolio, sl_note, events, tr, db, sm, mkt, cfg, hist,
                   opened>>

\* TradingBot._tick (bot.py:179-245)
Tick(usdt_balance, prices, feeds) ==
    /\ bot.mode # "new"
    /\ bar < MaxTicks
    /\ bar' = bar + 1
    /\ \E w \in {tick(World, bot.mode, bot.adaptive, bar + 1, usdt_balance,
                      prices, feeds)} :
           /\ rm' = w.rm
           /\ portfolio' = w.pf
           /\ sm' = w.sm
           /\ tr' = w.tr
           /\ db' = w.db
           /\ obs' = [op |-> "tick",
                      skipped |-> usdt_balance = 0 /\ bot.mode = "live",
                      total_value |-> calculate_portfolio_value(
                                          portfolio, usdt_balance, prices),
                      can_trade |-> w.can_trade, evals |-> w.evals,
                      rm_before |-> rm, pf_before |-> portfolio,
                      prices |-> prices]
    /\ UNCHANGED <<sl_note, events, mkt, bot, cfg, hist, opened>>

NextBot ==
    \/ \E mode \in {"live", "paper"}, adaptive \in BOOLEAN,
          recovered \in Recoverable, b \in StartBalances, p \in StartPrices :
          Start(mode, adaptive, recovered, b, p)
    \/ \E b \in TickBalances, p \in PriceMaps : DailyReset(b, p)
    \/ \E b \in TickBalances, p \in PriceMaps, f \in FeedMaps : Tick(b, p, f)

SpecBot == Init /\ [][NextBot]_vars

Ticked == obs.op = "tick"

\* the portfolio value is a data-source anomaly for the day's start d
Anomalous(v, d) == v <= 0 \/ (d > 0 /\ 2 * v < d)

\* C4: on a tick whose portfolio value is a data-source anomaly (zero, or
\* below 50% of the day's starting value) the tick is skipped: the circuit
\* breaker check does not allow trading and does not trip, no position is
\* opened or closed, and no risk state (halt flag and reason, peak, daily
\* start, loss and trade counters, cooldown maps) is changed.
C4_AnomalyTickSkipped ==
    (Ticked /\ Anomalous(obs.total_value,
                         obs.rm_before.daily_starting_value))
      => /\ ~obs.can_trade
         /\ \A s \in Symbols :
               portfolio.positions[s].open = obs.pf_before.positions[s].open
         /\ rm = obs.rm_before

\* the part of C4 the risk manager keeps: on an anomalous value
\* check_circuit_breakers returns false and leaves the halt flag and reason
\* as they were
C4_BreakerNotTripped ==
    (Ticked /\ Anomalous(obs.total_value,
                         obs.rm_before.daily_starting_value))
      => /\ ~obs.can_trade
         /\ rm.trading_halted = obs.rm_before.trading_halted
         /\ rm.halt_reason = obs.rm_before.halt_reason

\* the evaluation e of one candidate respects the gate order and stops at
\* the first gate that blocks
GatesInOrder(e) ==
    /\ Len(e.gates) <= Len(GateOrder)
    /\ \A i \in 1..Len(e.gates) : e.gates[i].gate = GateOrder[i]

FirstBlockEnds(e) ==
    /\ \A i \in 1..(Len(e.gates) - 1) : ~e.gates[i].blocked
    /\ e.outcome = "blocked" <=>
          (e.gates # <<>> /\ e.gates[Len(e.gates)].blocked)
    /\ e.outcome = "opened" =>
          (Len(e.gates) = Len(GateOrder)
             /\ \A i \in 1..Len(e.gates) : ~e.gates[i].blocked)

LaterGatesUntouched(e) ==
    e.outcome = "blocked" =>
      /\ e.pf_after = e.pf_before
      /\ e.rm_after.trades_today = e.rm_before.trades_today
      /\ Len(e.gates) < 2 =>
            /\ e.rm_after.hour_start_bar = e.rm_before.hour_start_bar
            /\ e.rm_after.trades_this_hour = e.rm_before.trades_this_hour
      /\ Len(e.gates) < 4 =>
            /\ e.rm_after.current_tick_bar = e.rm_before.current_tick_bar
            /\ e.rm_after.entries_this_tick = e.rm_before.entries_this_tick
      /\ Len(e.gates) >= 2 =>
            e.rm_after.trades_this_hour <= e.rm_before.trades_this_hour
      /\ Len(e.gates) >= 4 =>
            e.rm_after.entries_this_tick <= e.rm_before.entries_this_tick

\* C10: for each candidate trade the gates are evaluated in the order
\* cooldown, frequency cap, post-profit cooldown, clustering cap, signal
\* validation, correlation cap, position sizing, and the first gate that
\* blocks ends the evaluation: no later gate is evaluated, no later gate's
\* counters are touched, and no position is opened.
C10_GateOrder ==
    Ticked =>
      \A j \in DOMAIN obs.evals :
         /\ GatesInOrder(obs.evals[j])
         /\ FirstBlockEnds(obs.evals[j])
         /\ LaterGatesUntouched(obs.evals[j])

\* Reached: on one tick BTC passes all seven gates and is opened long, and
\* SOL, also a BUY, passes cooldown, frequency, post-profit, clustering
\* and validation and is refused by the correlation cap: sizing is not
\* evaluated and no position is opened for it.
C10_Witness ==
    /\ Ticked
    /\ Len(obs.evals) = 2
    /\ obs.evals[1].outcome = "opened"
    /\ obs.evals[2].symbol = "SOL"
    /\ obs.evals[2].outcome = "blocked"
    /\ Len(obs.evals[2].gates) = 6
    /\ obs.evals[2].gates[6] = [gate |-> "correlation", blocked |-> TRUE]
    /\ portfolio.positions["BTC"].open /\ ~portfolio.positions["SOL"].open
    /\ obs.evals[2].rm_after.current_tick_bar = bar
    /\ obs.evals[2].rm_after.entries_this_tick = 1


\* no position was opened by the tick just taken: no symbol became open, no
\* opening was recorded by record_trade_opened, no evaluation ended in one
NoPositionOpened ==
    /\ rm.trades_today = obs.rm_before.trades_today
    /\ \A s \in Symbols :
          portfolio.positions[s].open => obs.pf_before.positions[s].open
    /\ \A i \in 1..Len(obs.evals) : obs.evals[i].outcome # "opened"

\* the stop (take-profit) of the position held on s before the tick is hit at
\* the tick's price
StopHit(s) ==
    LET position == WithEmergencyStops(obs.pf_before.positions[s])
    IN  /\ obs.pf_before.positions[s].open
        /\ check_stop_loss(position.stop_loss, obs.prices[s], position.side)

TargetHit(s) ==
    LET position == WithEmergencyStops(obs.pf_before.positions[s])
    IN  /\ obs.pf_before.positions[s].open
        /\ check_take_profit(position.take_profit, obs.prices[s],
                             position.side)

C11_WitnessBlocked ==
    /\ Ticked /\ ~obs.skipped /\ ~obs.can_trade
    /\ ~obs.rm_before.trading_halted

-----------------------------------------------------------------------------
(* Regime confirmation and the regime-change wait, call by call
   (SpecRegime): get_signal is called for either symbol at increasing bar
   indices, under each setting of REGIME_CHANGE_WAIT_BARS *)

RegimeFeeds ==
    { [MarketInit EXCEPT !.regime = "trending",
                         !.raw = RawSignal("BUY", 95), !.htf = h] :
         h \in {HigherTF(10, 0, 0), HigherTF(20, 0, 0), HigherTF(30, 0, 0)} }
    \cup { [MarketInit EXCEPT !.regime = "ranging",
                              !.raw = RawSignal("BUY", 95)] }

\* the regime returned for the symbol is noted, with the bar of the last call
\* that returned another regime than the call before it; the "counted"
\* fields skip the calls made with bar index 0; below_run counts the calls
\* for the symbol, up to this one and without a gap, on which the primary
\* regime was trending and the higher-timeframe ADX was below the weak
\* threshold (counted up to MTF_REJECTION_CONFIRMATIONS)
BelowWeak(k) ==
    k.regime = "trending" /\ k.htf.present /\ k.htf.adx < MTF_WEAK_ADX_THRESHOLD

Remember(h, symbol, regime, bar_index, k) ==
    [s \in Symbols |->
        IF s # symbol THEN h[s]
        ELSE [prev    |-> regime,
              changed |-> IF h[s].prev # NoRegime /\ h[s].prev # regime
                          THEN bar_index ELSE h[s].changed,
              prev_counted |-> IF bar_index > 0 THEN regime
                               ELSE h[s].prev_counted,
              changed_counted |->
                  IF /\ bar_index > 0
                     /\ h[s].prev_counted # NoRegime
                     /\ h[s].prev_counted # regime
                  THEN bar_index ELSE h[s].changed_counted,
              below_run |->
                  IF BelowWeak(k)
                  THEN Min(h[s].below_run + 1, MTF_REJECTION_CONFIRMATIONS)
                  ELSE 0]]

InitRegime ==
    /\ Constructed
    /\ cfg \in {[Settings EXCEPT !.wait_bars = w] : w \in 1..MaxWaitBars}

ObserveRegime(s, k) ==
    LET res == get_signal(sm, s, k, bar, cfg.wait_bars)
    IN  /\ res.sm.htf_rejection_count[s] <= MaxRejections
        /\ sm' = res.sm
        /\ hist' = Remember(hist, s, res.regime, bar, k)
        /\ obs' = [op |-> "observe", sym |-> s, ret |-> res.signal,
                   regime |-> res.regime, stages |-> res.stages,
                   primary |-> k.regime, htf |-> k.htf,
                   count_before |-> sm.htf_rejection_count]
        /\ UNCHANGED <<riskVars, adaptiveVars, mkt, portfolio, bot, cfg, opened>>

NextRegimeBar ==
    /\ bar < MaxRegimeBar
    /\ bar' = bar + 1
    /\ obs' = [op |-> "bar"]
    /\ UNCHANGED <<rm, sl_note, events, notRisk>>

NextRegime ==
    \/ \E s \in Symbols, k \in RegimeFeeds : ObserveRegime(s, k)
    \/ NextRegimeBar

SpecRegime == InitRegime /\ [][NextRegime]_vars

Observed == obs.op = "observe"

\* C12: in graduated mode, for a symbol whose primary regime is TRENDING and
\* that has higher-timeframe data: ADX >= the strong threshold gives
\* TRENDING_STRONG and ADX >= the weak threshold gives TRENDING_WEAK, each
\* with the symbol's rejection counter reset to 0; ADX below the weak
\* threshold increments the counter and gives RANGING once the counter has
\* reached MTF_REJECTION_CONFIRMATIONS, TRENDING_WEAK before that; the
\* counters of the other symbols are unchanged.
C12_Hysteresis ==
    (Observed /\ ENABLE_TRENDING_WEAK /\ MTF_REGIME_CONFIRMATION
       /\ obs.primary = "trending" /\ obs.htf.present)
      => /\ obs.htf.adx >= MTF_STRONG_ADX_THRESHOLD =>
               /\ obs.regime = "trending_strong"
               /\ sm.htf_rejection_count[obs.sym] = 0
         /\ (obs.htf.adx >= MTF_WEAK_ADX_THRESHOLD
               /\ obs.htf.adx < MTF_STRONG_ADX_THRESHOLD) =>
               /\ obs.regime = "trending_weak"
               /\ sm.htf_rejection_count[obs.sym] = 0
         /\ obs.htf.adx < MTF_WEAK_ADX_THRESHOLD =>
               /\ sm.htf_rejection_count[obs.sym] =
                     obs.count_before[obs.sym] + 1
               /\ obs.regime =
                     IF sm.htf_rejection_count[obs.sym]
                           >= MTF_REJECTION_CONFIRMATIONS
                     THEN "ranging" ELSE "trending_weak"
         /\ \A t \in Symbols \ {obs.sym} :
               sm.htf_rejection_count[t] = obs.count_before[t]

\* Reached: the third below-weak confirmation in a row downgrades BTC to
\* RANGING while SOL's counter stays at 1.
C12_Witness ==
    /\ Observed /\ obs.sym = "BTC"
    /\ obs.primary = "trending" /\ obs.htf.present
    /\ obs.htf.adx < MTF_WEAK_ADX_THRESHOLD
    /\ obs.count_before["BTC"] = MTF_REJECTION_CONFIRMATIONS - 1
    /\ sm.htf_rejection_count["BTC"] = MTF_REJECTION_CONFIRMATIONS
    /\ obs.regime = "ranging"
    /\ sm.htf_rejection_count["SOL"] = 1

\* Reached: a weak-tier reading resets a counter that stood at 2.
C12_WitnessReset ==
    /\ Observed /\ obs.primary = "trending" /\ obs.htf.present
    /\ obs.htf.adx >= MTF_WEAK_ADX_THRESHOLD
    /\ obs.htf.adx < MTF_STRONG_ADX_THRESHOLD
    /\ obs.count_before[obs.sym] = 2
    /\ sm.htf_rejection_count[obs.sym] = 0

\* the call just made was answered by the wait guard
Held ==
    obs.ret.signal = "HOLD" /\ obs.ret.confidence = 0 /\ obs.stages = <<>>

InWait(changed) == changed # NoBar /\ bar - changed < cfg.wait_bars

\* C13 as stated: with wait_bars > 0, a call is answered with HOLD at
\* confidence 0 exactly when the symbol's last regime transition, between two
\* successive calls for that symbol, was observed fewer than wait_bars bars
\* ago.
C13_AsClaimed ==
    (Observed /\ cfg.wait_bars > 0)
      => (InWait(hist[obs.sym].changed) <=> Held)

\* C13: with wait_bars > 0, a call is answered with HOLD at confidence 0
\* exactly when the symbol's last regime transition, between two successive
\* calls for that symbol made with a bar index above 0, was observed fewer
\* than wait_bars bars ago; a call with bar index 0 is answered normally and
\* is not remembered.  The first observation of a symbol starts no wait and a
\* transition on one symbol does not hold the other.
C13_WaitGuard ==
    (Observed /\ cfg.wait_bars > 0)
      => (InWait(hist[obs.sym].changed_counted) <=> Held)

\* Reached: with wait_bars = 2 BTC is held on the bar after its transition
\* while SOL, observed without a transition, is not waiting.
C13_Witness ==
    /\ Observed /\ cfg.wait_bars = 2 /\ obs.sym = "BTC"
    /\ Held
    /\ hist["BTC"].changed_counted = bar - 1
    /\ hist["SOL"].prev_counted # NoRegime
    /\ hist["SOL"].changed_counted = NoBar

\* Reached: signalling resumes wait_bars bars after the transition.
C13_WitnessResumed ==
    /\ Observed /\ cfg.wait_bars = 2
    /\ ~Held /\ obs.stages # <<>>
    /\ hist[obs.sym].changed_counted = bar - 2

-----------------------------------------------------------------------------
(* The hourly trade-frequency cap, call by call (SpecFrequency): every open
   is preceded by a passing check_trade_frequency and followed by
   record_trade_opened *)

OpenTrade ==
    LET res == check_trade_frequency(rm, bar)
    IN  /\ ~res.ret
        /\ rm' = record_trade_opened(res.rm)
        /\ opened' = [opened EXCEPT ![bar] = @ + 1]
        /\ obs' = [op |-> "open"]
        /\ UNCHANGED <<bar, sl_note, events, adaptiveVars, signalVars,
                       portfolio, bot, cfg, hist>>

RefusedTrade ==
    LET res == check_trade_frequency(rm, bar)
    IN  /\ res.ret
        /\ rm' = res.rm
        /\ obs' = [op |-> "refused"]
        /\ UNCHANGED <<bar, sl_note, events, notRisk>>

NextFrequencyBar ==
    /\ bar < MaxFrequencyBar
    /\ bar' = bar + 1
    /\ obs' = [op |-> "bar"]
    /\ UNCHANGED <<rm, sl_note, events, notRisk>>

NextFrequency == OpenTrade \/ RefusedTrade \/ NextFrequencyBar

SpecFrequency == Init /\ [][NextFrequency]_vars

RECURSIVE OpenedIn(_, _)
OpenedIn(first, last) ==
    IF first > last THEN 0
    ELSE opened[first] + OpenedIn(first + 1, last)

\* C14: in any span of bars_per_hour consecutive bar indices at most
\* MAX_TRADES_PER_HOUR positions are opened, given that every open is
\* preceded by a passing check_trade_frequency and followed by
\* record_trade_opened.
C14_RollingHourCap ==
    \A b \in 0..(MaxFrequencyBar - bars_per_hour + 1) :
       OpenedIn(b, b + bars_per_hour - 1) <= MAX_TRADES_PER_HOUR

\* what the counters do guarantee: the cap holds in each window that starts
\* at the bar where the counter was last reset
C14_WindowCap ==
    /\ rm.trades_this_hour <= MAX_TRADES_PER_HOUR
    /\ OpenedIn(rm.hour_start_bar, bar) = rm.trades_this_hour

-----------------------------------------------------------------------------
(* The bot under a lower position cap (SpecCap): MAX_OPEN_POSITIONS is 1 or
   the number of traded pairs, everything else as shipped *)

InitCap ==
    /\ Constructed
    /\ cfg \in {[Settings EXCEPT !.max_open_positions = c] :
                   c \in 1..Len(Pairs)}

SpecCap == InitCap /\ [][NextBot]_vars

\* C15: after any sequence of ticks the number of open positions never
\* exceeds max_open_positions, whatever max_entries_per_tick,
\* max_same_direction_positions and the number of traded symbols are.
C15_OpenPositionsCapped ==
    open_position_count(portfolio) <= cfg.max_open_positions

\* what the breaker does guarantee: a tick that starts its entries at the cap
\* opens nothing
C15_NoEntryAtCap ==
    (Ticked /\ ~obs.skipped /\ obs.evals # <<>>)
      => open_position_count(obs.evals[1].pf_before) < cfg.max_open_positions

-----------------------------------------------------------------------------
(* validate_signal on its own (SpecValidate) *)

\* entry prices whose floor distance and rebuilt targets are whole dollars
ValidationEntries   == {4000, 8000}
\* the stop, as a signed distance from the entry in thousandths of the entry
\* price (the floor is MIN_SL_DISTANCE_PCT = 15); -1000 puts the stop at 0
ValidationStops     == {-1000, -20, -15, -10, 0, 5, 15}
\* the take-profit, as a signed distance in thousandths of the entry price
ValidationTargets   == {-40, 5, 40}
ValidationConfidences == {70, 95}

ValidationSignals ==
    { [signal |-> d, confidence |-> c, strategy |-> st, entry_price |-> e,
       stop_loss   |-> e + (e * sl) \div 1000,
       take_profit |-> e + (e * tp) \div 1000,
       reason |-> <<"analyze">>] :
         d \in Directions \cup {"HOLD"}, c \in ValidationConfidences,
         st \in Strategies \cup {""}, e \in ValidationEntries,
         sl \in ValidationStops, tp \in ValidationTargets }

DoValidateSignal(signal) ==
    /\ obs' = [op |-> "validate_signal", signal |-> signal,
               ret |-> validate_signal(signal).ret,
               left |-> validate_signal(signal).signal]
    /\ UNCHANGED <<riskVars, notRisk>>

NextValidate == \E signal \in ValidationSignals : DoValidateSignal(signal)

SpecValidate == Init /\ [][NextValidate]_vars

Validated == obs.op = "validate_signal"

\* the stop of the signal is closer to the entry than the floor
TightStop(signal) ==
    1000 * Abs(signal.entry_price - signal.stop_loss)
       < MIN_SL_DISTANCE_PCT * signal.entry_price

-----------------------------------------------------------------------------
(* The reason trail of the filter stages (SpecSignal) *)

IsPrefix(a, b) == Len(a) <= Len(b) /\ SubSeq(b, 1, Len(a)) = a

\* C17: the reason trail is append-only: the reason of each filter stage's
\* output has the reason of its input as a prefix, including when the stage
\* forces HOLD (multi-timeframe block, liquidation cascade).
C17_ReasonTrailAppendOnly ==
    GotSignal =>
      \A i \in 1..(Len(obs.stages) - 1) :
         IsPrefix(obs.stages[i].reason, obs.stages[i + 1].reason)

\* what does hold: a stage that does not force HOLD only appends
C17_AppendUnlessBlocked ==
    GotSignal =>
      \A i \in 1..(Len(obs.stages) - 1) :
         \/ IsPrefix(obs.stages[i].reason, obs.stages[i + 1].reason)
         \/ /\ obs.stages[i].signal # "HOLD"
            /\ obs.stages[i + 1].signal = "HOLD"
            /\ Len(obs.stages[i + 1].reason) = 1

-----------------------------------------------------------------------------
(* The metrics as a function of the rolling window (SpecAdaptive) *)

\* the streak the trades of a window show: the length of the run of wins
\* (positive) or losses (negative) that ends the window
RECURSIVE WindowStreak(_)
WindowStreak(trades) ==
    IF trades = <<>> THEN 0
    ELSE NextStreak(WindowStreak(SubSeq(trades, 1, Len(trades) - 1)),
                    trades[Len(trades)].pnl)

\* C18: the StrategyMetrics of get_strategy_metrics and get_overall_metrics,
\* current_streak included, are a function of the current contents of the
\* rolling window only: current_streak is the run that ends the window, so
\* that two trackers with the same window report the same metrics, and
\* |current_streak| never exceeds the number of trades in the window.
C18_MetricsFromWindow ==
    /\ \A s \in Strategies :
          /\ get_strategy_metrics(tr, s).current_streak
                = WindowStreak(tr.trades[s])
          /\ Abs(get_strategy_metrics(tr, s).current_streak)
                <= Len(tr.trades[s])
    /\ get_overall_metrics(tr).current_streak = WindowStreak(tr.all_trades)
    /\ Abs(get_overall_metrics(tr).current_streak) <= Len(tr.all_trades)

\* what does hold: everything but current_streak is computed from the window
C18_OtherMetricsFromWindow ==
    /\ \A s \in Strategies :
          get_strategy_metrics(tr, s)
             = [compute_metrics(tr.trades[s], 0) EXCEPT
                  !.current_streak = tr.streaks[s]]
    /\ get_overall_metrics(tr).trade_count = Len(tr.all_trades)

-----------------------------------------------------------------------------
(* The defaults below min_trades (SpecAdaptive) *)

ComputedOverrides == obs.op = "compute_overrides"

\* C19: while a strategy's window holds fewer than min_trades trades,
\* compute_overrides returns for it the default confidence threshold and
\* size scale 1.0, and while the combined window holds fewer than min_trades
\* trades it returns leverage_scale 1.0 and the configured default stop-loss
\* multiplier and reward:risk ratio, whatever the recorded trades were.
C19_DefaultsBelowMinTrades ==
    ComputedOverrides =>
      /\ \A s \in Strategies :
            Len(tr.trades[s]) < MinTrades =>
               /\ obs.ret.min_confidence[s] = DefaultConfidence(s)
               /\ obs.ret.position_size_scale[s] = QInt(1)
      /\ Len(tr.all_trades) < MinTrades =>
            /\ obs.ret.leverage_scale = QInt(1)
            /\ obs.ret.sl_atr_multiplier = Q(STOP_LOSS_ATR_MULTIPLIER, 10)
            /\ obs.ret.rr_ratio = QInt(REWARD_RISK_RATIO)

\* Reached: momentum has one losing trade (below min_trades) and keeps its
\* defaults, while the combined window has reached min_trades and the
\* leverage is scaled down.
C19_Witness ==
    /\ ComputedOverrides
    /\ Len(tr.trades["momentum"]) = MinTrades - 1
    /\ tr.trades["momentum"][1].pnl < 0
    /\ obs.ret.min_confidence["momentum"] = DefaultConfidence("momentum")
    /\ obs.ret.position_size_scale["momentum"] = QInt(1)
    /\ Len(tr.all_trades) >= MinTrades
    /\ QLt(obs.ret.leverage_scale, QInt(1))

\* Reached: a single losing trade overall leaves every override at its
\* default.
C19_WitnessOverall ==
    /\ ComputedOverrides
    /\ Len(tr.all_trades) = MinTrades - 1
    /\ tr.all_trades[1].pnl < 0
    /\ obs.ret.leverage_scale = QInt(1)

-----------------------------------------------------------------------------
(* MarketAnalyzer.classify (src/analysis/market_analyzer.py).  The frame is
   reduced to what classify reads after add_all_indicators: the number of
   rows, the latest ATR and ADX, and the rolling mean of the ATR, which is
   NaN while the window is not filled.  ATR values are whole numbers, the
   multipliers are tenths, squeeze_risk is in hundredths and oi_delta_pct in
   whole percent. *)

ATR_PERIOD                == 14
ADX_PERIOD                == 14
ADX_TRENDING_THRESHOLD    == 25
\* 1.5, in tenths
ATR_VOLATILE_MULTIPLIER   == 15
\* 1.2, in tenths
SQUEEZE_RISK_ATR_MULT     == 12
\* 0.6, in hundredths
SQUEEZE_RISK_OI_THRESHOLD == 60
\* -3.0 percent
TREND_EXHAUSTION_OI_DELTA == -3

\* derivatives_data of classify: None, or a dict with the two keys it reads
NoOIData == [present |-> FALSE, squeeze_risk |-> 0, oi_delta_pct |-> 0]

OIData(squeeze_risk, oi_delta_pct) ==
    [present |-> TRUE, squeeze_risk |-> squeeze_risk,
     oi_delta_pct |-> oi_delta_pct]

\* atr_sma > 0: false for NaN
AtrSmaPositive(df) == ~df.atr_sma_nan /\ df.atr_sma > 0

\* atr > atr_sma * mult, mult in tenths: false for NaN
AtrAbove(df, mult) == ~df.atr_sma_nan /\ df.atr * 10 > df.atr_sma * mult

classify_volatile_first(df, derivatives_data) ==
    IF df.len < ATR_PERIOD + ADX_PERIOD THEN "ranging"
    ELSE IF /\ AtrSmaPositive(df)
            /\ AtrAbove(df, ATR_VOLATILE_MULTIPLIER)
    THEN "volatile"
    ELSE IF /\ derivatives_data.present
            /\ AtrSmaPositive(df)
            /\ AtrAbove(df, SQUEEZE_RISK_ATR_MULT)
            /\ derivatives_data.squeeze_risk >= SQUEEZE_RISK_OI_THRESHOLD
    THEN "squeeze_risk"
    ELSE IF df.adx > ADX_TRENDING_THRESHOLD
    THEN IF /\ derivatives_data.present
            /\ derivatives_data.oi_delta_pct < TREND_EXHAUSTION_OI_DELTA
         THEN "ranging"
         ELSE "trending"
    ELSE "ranging"

classify(df, derivatives_data) ==
    IF df.len < ATR_PERIOD + ADX_PERIOD THEN "ranging"
    ELSE IF /\ derivatives_data.present
            /\ AtrSmaPositive(df)
            /\ AtrAbove(df, SQUEEZE_RISK_ATR_MULT)
            /\ derivatives_data.squeeze_risk >= SQUEEZE_RISK_OI_THRESHOLD
    THEN "squeeze_risk"
    ELSE IF /\ AtrSmaPositive(df)
            /\ AtrAbove(df, ATR_VOLATILE_MULTIPLIER)
    THEN "volatile"
    ELSE IF df.adx > ADX_TRENDING_THRESHOLD
    THEN IF /\ derivatives_data.present
            /\ derivatives_data.oi_delta_pct < TREND_EXHAUSTION_OI_DELTA
         THEN "ranging"
         ELSE "trending"
    ELSE "ranging"

\* Frames given to classify: one row short of ATR_PERIOD + ADX_PERIOD and
\* exactly enough; a flat market (ATR and its mean both 0), an unfilled
\* rolling window (NaN), and an ATR at 1.0, 1.2, 1.3, 1.5 and 1.6 times its
\* mean; an ADX below, at and above the threshold.
ClassifyLens == {ATR_PERIOD + ADX_PERIOD - 1, ATR_PERIOD + ADX_PERIOD}
ClassifyAtrs ==
    { [atr |-> 0,  atr_sma |-> 0,  atr_sma_nan |-> FALSE],
      [atr |-> 16, atr_sma |-> 0,  atr_sma_nan |-> TRUE],
      [atr |-> 10, atr_sma |-> 10, atr_sma_nan |-> FALSE],
      [atr |-> 12, atr_sma |-> 10, atr_sma_nan |-> FALSE],
      [atr |-> 13, atr_sma |-> 10, atr_sma_nan |-> FALSE],
      [atr |-> 15, atr_sma |-> 10, atr_sma_nan |-> FALSE],
      [atr |-> 16, atr_sma |-> 10, atr_sma_nan |-> FALSE] }
ClassifyAdxs == {20, 25, 26}
ClassifyFrames ==
    { [len |-> n, atr |-> a.atr, atr_sma |-> a.atr_sma,
       atr_sma_nan |-> a.atr_sma_nan, adx |-> adx] :
         n \in ClassifyLens, a \in ClassifyAtrs, adx \in ClassifyAdxs }
ClassifyDerivatives ==
    {NoOIData} \cup
    { OIData(q, d) : q \in {59, 60, 80}, d \in {-4, -3, 0} }

DoClassify(df, derivatives_data) ==
    /\ obs' = [op |-> "classify", df |-> df,
               derivatives_data |-> derivatives_data,
               ret |-> classify(df, derivatives_data)]
    /\ UNCHANGED <<riskVars, notRisk>>

NextClassify ==
    \E df \in ClassifyFrames, derivatives_data \in ClassifyDerivatives :
        DoClassify(df, derivatives_data)

SpecClassify == Init /\ [][NextClassify]_vars

Classified == obs.op = "classify"

\* The decision list as stated: each rule is a condition and the regime it
\* gives; the comparisons are those of floating point, false against NaN.
ClaimedRules(df, d) ==
    << [when |-> df.len < ATR_PERIOD + ADX_PERIOD, then |-> "ranging"],
       [when |-> /\ d.present
                 /\ AtrAbove(df, SQUEEZE_RISK_ATR_MULT)
                 /\ d.squeeze_risk >= SQUEEZE_RISK_OI_THRESHOLD,
        then |-> "squeeze_risk"],
       [when |-> AtrAbove(df, ATR_VOLATILE_MULTIPLIER), then |-> "volatile"],
       [when |-> df.adx > ADX_TRENDING_THRESHOLD,
        then |-> IF d.present /\ d.oi_delta_pct < TREND_EXHAUSTION_OI_DELTA
                 THEN "ranging" ELSE "trending"],
       [when |-> TRUE, then |-> "ranging"] >>

FirstMatch(rules) ==
    rules[CHOOSE i \in 1..Len(rules) :
             /\ rules[i].when
             /\ \A j \in 1..(i - 1) : ~rules[j].when].then

C20_WitnessExhaustion ==
    /\ Classified
    /\ obs.df.len >= ATR_PERIOD + ADX_PERIOD
    /\ ~AtrAbove(obs.df, SQUEEZE_RISK_ATR_MULT)
    /\ obs.df.adx > ADX_TRENDING_THRESHOLD
    /\ obs.derivatives_data.present
    /\ obs.derivatives_data.oi_delta_pct < TREND_EXHAUSTION_OI_DELTA
    /\ obs.ret = "ranging"

-----------------------------------------------------------------------------
(* The strategies (src/strategies).  A frame is the OHLCV history reduced to
   what analyze reads once the indicators are added: the number of rows and
   the values of the last two rows.  Confidences are hundredths, the MACD
   histogram is in hundredths, the volume ratio in tenths.  The volume
   ratio, the OBV columns and the divergence flags are read as the
   indicator layer delivers them. *)

EMA_TREND      == 21
BB_PERIOD      == 10
SR_LOOKBACK    == 50
RSI_OVERSOLD   == 25
RSI_OVERBOUGHT == 75

\* rows the indicator library needs before every column can be computed
\* ("ADX needs ~2x period", backtest/engine.py:721-722)
IndicatorWarmup == ADX_PERIOD * 2

\* add_all_indicators(df): every add_* hands the columns to the indicator
\* library.  On a frame that has the warm-up rows it returns the frame with
\* its columns; on a shorter frame the library either fills the columns it
\* cannot compute or raises, so both are outcomes.
add_all_indicators(df) ==
    IF df.len < IndicatorWarmup THEN {"frame", "raises"} ELSE {"frame"}

\* _hold(symbol, df) of the three strategies
HoldInsufficient(name, df, reason) ==
    [signal |-> "HOLD", confidence |-> 0, strategy |-> name,
     entry_price |-> IF df.len > 0 THEN df.close ELSE 0,
     stop_loss |-> 0, take_profit |-> 0, reason |-> <<reason>>]

Clamp01(confidence) ==
    IF confidence < 0 THEN 0 ELSE IF confidence > 100 THEN 100 ELSE confidence

\* the closing lines of analyze: stop and target from the ATR, multipliers
\* in tenths
Levelled(name, signal, confidence, df, sl_mult, rr_ratio, reason, none) ==
    LET price     == df.close
        stop_loss == IF signal = "BUY"
                     THEN price - (df.atr * sl_mult) \div 10
                     ELSE price + (df.atr * sl_mult) \div 10
        risk      == IF price >= stop_loss THEN price - stop_loss
                     ELSE stop_loss - price
    IN  [signal |-> signal, confidence |-> Clamp01(confidence),
         strategy |-> name, entry_price |-> price, stop_loss |-> stop_loss,
         take_profit |-> IF signal = "BUY"
                         THEN price + (risk * rr_ratio) \div 10
                         ELSE price - (risk * rr_ratio) \div 10,
         reason |-> IF reason = <<>> THEN <<none>> ELSE reason]

\* a list of (condition, confidence change, reason part) folded in order
RECURSIVE Scored(_, _)
Scored(parts, acc) ==
    IF parts = <<>> THEN acc
    ELSE LET p == Head(parts)
         IN  Scored(Tail(parts),
                    IF p.when
                    THEN [confidence |-> acc.confidence + p.add,
                          reason |-> IF p.part = "" THEN acc.reason
                                     ELSE Append(acc.reason, p.part)]
                    ELSE acc)

Part(when, add, part) == [when |-> when, add |-> add, part |-> part]

\* the confirmations of a BUY, in the order analyze adds them
BuyParts_flatmacd(df, bullish_cross) ==
    LET rising == df.macd_hist > 0 /\ df.macd_hist > df.prev_macd_hist
    IN  << Part(TRUE, 20, IF bullish_cross THEN "EMA bullish cross"
                          ELSE "Price above trend EMA"),
           Part(40 < df.rsi /\ df.rsi < RSI_OVERBOUGHT, 15, "RSI confirms"),
           Part(~(40 < df.rsi /\ df.rsi < RSI_OVERBOUGHT)
                /\ df.rsi >= RSI_OVERBOUGHT, -20, "RSI overbought warning"),
           Part(rising, 15, "MACD histogram rising"),
           Part(~rising /\ df.macd_hist > 0, 0, "MACD histogram positive"),
           Part(df.volume_ratio > 15, 15, "Strong volume"),
           Part(~(df.volume_ratio > 15) /\ df.volume_ratio > 12, 8,
                "Above-avg volume"),
           Part(df.obv > df.obv_ema, 10, "OBV confirms buying pressure"),
           Part(df.rsi_div = "bullish", 15, "Bullish RSI divergence"),
           Part(df.macd_div = "bullish", 10, "Bullish MACD divergence"),
           Part(df.rsi_div = "bearish", -15,
                "Warning: bearish RSI divergence") >>

BuyParts(df, bullish_cross) ==
    LET rising == df.macd_hist > 0 /\ df.macd_hist > df.prev_macd_hist
    IN  << Part(TRUE, 20, IF bullish_cross THEN "EMA bullish cross"
                          ELSE "Price above trend EMA"),
           Part(40 < df.rsi /\ df.rsi < RSI_OVERBOUGHT, 15, "RSI confirms"),
           Part(~(40 < df.rsi /\ df.rsi < RSI_OVERBOUGHT)
                /\ df.rsi >= RSI_OVERBOUGHT, -20, "RSI overbought warning"),
           Part(rising, 15, "MACD histogram rising"),
           Part(~rising /\ df.macd_hist > 0, 10, "MACD histogram positive"),
           Part(df.volume_ratio > 15, 15, "Strong volume"),
           Part(~(df.volume_ratio > 15) /\ df.volume_ratio > 12, 8,
                "Above-avg volume"),
           Part(df.obv > df.obv_ema, 10, "OBV confirms buying pressure"),
           Part(df.rsi_div = "bullish", 15, "Bullish RSI divergence"),
           Part(df.macd_div = "bullish", 10, "Bullish MACD divergence"),
           Part(df.rsi_div = "bearish", -15,
                "Warning: bearish RSI divergence") >>

\* the confirmations of a SELL
SellParts(df, bearish_cross) ==
    LET falling == df.macd_hist < 0 /\ df.macd_hist < df.prev_macd_hist
    IN  << Part(TRUE, 20, IF bearish_cross THEN "EMA bearish cross"
                          ELSE "Price below trend EMA"),
           Part(df.rsi < RSI_OVERSOLD, -15, "RSI oversold, may bounce"),
           Part(~(df.rsi < RSI_OVERSOLD) /\ df.rsi > 55, 15,
                "RSI confirms downtrend"),
           Part(falling, 15, "MACD histogram falling"),
           Part(~falling /\ df.macd_hist < 0, 10, ""),
           Part(df.volume_ratio > 15, 15, "Strong sell volume"),
           Part(df.obv < df.obv_ema, 10, "OBV confirms selling pressure"),
           Part(df.rsi_div = "bearish", 15, "Bearish RSI divergence"),
           Part(df.macd_div = "bearish", 10, "Bearish MACD divergence") >>

NoScore == [confidence |-> 0, reason |-> <<>>]

\* MomentumStrategy.analyze once the indicators are added
momentum_analyze(df) ==
    IF df.len < EMA_TREND + 5
    THEN HoldInsufficient("momentum", df, "Insufficient data")
    ELSE
    LET bullish_cross == /\ df.prev_ema_fast <= df.prev_ema_slow
                         /\ df.ema_fast > df.ema_slow
        bearish_cross == /\ df.prev_ema_fast >= df.prev_ema_slow
                         /\ df.ema_fast < df.ema_slow
        buy    == \/ bullish_cross
                  \/ (df.ema_fast > df.ema_slow /\ df.close > df.ema_trend)
        sell   == \/ bearish_cross
                  \/ (df.ema_fast < df.ema_slow /\ df.close < df.ema_trend)
        signal == IF buy THEN "BUY" ELSE IF sell THEN "SELL" ELSE "HOLD"
    IN  \* bound once: the score is read twice below
        CHOOSE r \in
          { Levelled("momentum", signal, scored.confidence, df,
                     STOP_LOSS_ATR_MULTIPLIER, 10 * REWARD_RISK_RATIO,
                     scored.reason, "No clear signal") :
              scored \in { IF buy THEN Scored(BuyParts(df, bullish_cross), NoScore)
                           ELSE IF sell
                           THEN Scored(SellParts(df, bearish_cross), NoScore)
                           ELSE NoScore } } : TRUE

\* what the scoring of mean-reversion and breakout (the Bollinger touch and
\* the break of a level with their confirmations) makes of the frame: a
\* direction and a confidence, carried by the frame
Read(name, df, none) ==
    Levelled(name, df.reading.signal, df.reading.confidence, df,
             StrategySLMultiplier(name), StrategyRewardRisk(name),
             IF df.reading.signal = "HOLD" THEN <<>> ELSE <<"scored">>, none)

\* MeanReversionStrategy.analyze once the indicators are added
mean_reversion_analyze(df) ==
    IF df.len < BB_PERIOD + 5
    THEN HoldInsufficient("mean_reversion", df, "Insufficient data")
    ELSE IF df.bbl = 0 \/ df.bbu = 0
    THEN HoldInsufficient("mean_reversion", df, "Insufficient data")
    ELSE Read("mean_reversion", df, "Price within Bollinger Bands")

\* BreakoutStrategy.analyze once the indicators are added
breakout_analyze(df) ==
    LET min_bars == (IF EMA_TREND > SR_LOOKBACK THEN EMA_TREND
                     ELSE SR_LOOKBACK) + 5
    IN  IF df.len < min_bars
        THEN HoldInsufficient("breakout", df,
                              "Insufficient data or no S/R levels")
        ELSE IF ~df.levels
        THEN HoldInsufficient("breakout", df,
                              "Insufficient data or no S/R levels")
        ELSE Read("breakout", df, "No breakout detected")

\* BaseStrategy.analyze, dispatched on the strategy's name
analyze(name, df) ==
    CASE name = "momentum"       -> momentum_analyze(df)
      [] name = "mean_reversion" -> mean_reversion_analyze(df)
      [] name = "breakout"       -> breakout_analyze(df)

\* The frames.  ScenarioFrame is the bullish cross with every confirmation;
\* the other frames vary its columns.
\* rows the bot fetches for the primary timeframe
FetchLimit == 200

ScenarioFrame ==
    [len |-> FetchLimit, close |-> 8000, atr |-> 100,
     ema_fast |-> 7990, ema_slow |-> 7980,
     prev_ema_fast |-> 7970, prev_ema_slow |-> 7975, ema_trend |-> 7900,
     rsi |-> 55, macd_hist |-> 2, prev_macd_hist |-> 1, volume_ratio |-> 16,
     obv |-> 1, obv_ema |-> 0, rsi_div |-> "none", macd_div |-> "none",
     bbl |-> 7900, bbu |-> 8100, levels |-> TRUE,
     reading |-> [signal |-> "BUY", confidence |-> 80]]

Divergences == {"none", "bullish", "bearish"}

\* the inputs the scenario leaves open
ScenarioFrames ==
    { [ScenarioFrame EXCEPT !.prev_ema_fast = pf, !.prev_macd_hist = pm,
                            !.rsi_div = rd, !.macd_div = md, !.atr = atr] :
        pf \in {7970, 7975}, pm \in {1, 2, 3}, rd \in Divergences,
        md \in Divergences, atr \in {100, 200} }

\* (prev_ema_fast, prev_ema_slow, ema_fast, ema_slow): cross up, above,
\* cross down, below, equal
EmaRows == { <<7970, 7975, 7990, 7980>>, <<7985, 7978, 7990, 7980>>,
             <<7985, 7978, 7970, 7980>>, <<7972, 7978, 7970, 7980>>,
             <<7980, 7980, 7980, 7980>> }
\* (macd_hist, prev_macd_hist)
MacdRows == { <<2, 1>>, <<2, 3>>, <<-2, -1>>, <<-2, -3>> }

MomentumFrames ==
    { [ScenarioFrame EXCEPT !.prev_ema_fast = e[1], !.prev_ema_slow = e[2],
                            !.ema_fast = e[3], !.ema_slow = e[4],
                            !.ema_trend = t, !.rsi = rsi,
                            !.macd_hist = m[1], !.prev_macd_hist = m[2],
                            !.volume_ratio = v, !.obv = o] :
        e \in EmaRows, t \in {7900, 8100}, rsi \in {20, 55, 80},
        m \in MacdRows, v \in {10, 13, 16}, o \in {-1, 1} }

Readings == { [signal |-> "BUY", confidence |-> 80],
              [signal |-> "SELL", confidence |-> 80],
              [signal |-> "HOLD", confidence |-> 0] }

\* frames of every length around the three minimum bar counts, the empty
\* frame included
ShortAndLongFrames ==
    { [ScenarioFrame EXCEPT !.len = n, !.reading = r, !.bbl = b,
                            !.levels = l] :
        n \in {0, ATR_PERIOD - 1, BB_PERIOD + 4, BB_PERIOD + 5,
               EMA_TREND + 4, EMA_TREND + 5, IndicatorWarmup,
               SR_LOOKBACK + 4, SR_LOOKBACK + 5},
        r \in Readings, b \in {0, 7900}, l \in BOOLEAN }

\* analyze left by an exception: nothing is returned
NoTradeSignal == [HoldSignal("") EXCEPT !.signal = "none"]

\* analyze(df, symbol) of one strategy: add_all_indicators, then the guard
\* and the scoring
DoAnalyze(name, df, computed) ==
    /\ computed \in add_all_indicators(df)
    /\ obs' = [op |-> "analyze", strategy |-> name, df |-> df,
               raised |-> computed = "raises",
               ret |-> IF computed = "raises"
                       THEN NoTradeSignal ELSE analyze(name, df)]
    /\ UNCHANGED <<riskVars, notRisk>>

NextStrategy ==
    \/ \E df \in ScenarioFrames \cup MomentumFrames, c \in {"frame", "raises"} :
          DoAnalyze("momentum", df, c)
    \/ \E name \in Strategies, df \in ShortAndLongFrames,
          c \in {"frame", "raises"} :
          DoAnalyze(name, df, c)

SpecStrategy == Init /\ [][NextStrategy]_vars

Analyzed == obs.op = "analyze"

\* the minimum bar counts as stated
StatedMinimum(name) ==
    CASE name = "momentum"       -> EMA_TREND + 5
      [] name = "mean_reversion" -> BB_PERIOD + 5
      [] name = "breakout"       ->
            (IF EMA_TREND > SR_LOOKBACK THEN EMA_TREND ELSE SR_LOOKBACK) + 5

\* C21: on every series shorter than the strategy's minimum bar count,
\* analyze returns HOLD with confidence 0, not a direction and not an error.
C21_HoldBelowMinimumBars ==
    (Analyzed /\ obs.df.len < StatedMinimum(obs.strategy)) =>
        /\ ~obs.raised
        /\ obs.ret.signal = "HOLD"
        /\ obs.ret.confidence = 0

\* What holds: when the indicators could be added to the short series, the
\* guard answers HOLD with confidence 0 and no levels.
C21_HoldWhenComputed ==
    (Analyzed /\ obs.df.len < StatedMinimum(obs.strategy) /\ ~obs.raised) =>
        /\ obs.ret.signal = "HOLD"
        /\ obs.ret.confidence = 0
        /\ obs.ret.stop_loss = 0

\* the bullish-cross scenario: what it fixes, on a frame long enough to be
\* scored
BullishCrossScenario(df) ==
    /\ df.len >= EMA_TREND + 5
    /\ df.prev_ema_fast <= df.prev_ema_slow /\ df.ema_fast > df.ema_slow
    /\ df.close > df.ema_trend
    /\ df.rsi = 55
    /\ df.macd_hist = 2
    /\ df.volume_ratio = 16
    /\ df.obv > df.obv_ema

MomentumScored == Analyzed /\ obs.strategy = "momentum" /\ ~obs.raised

C22_WitnessBearish ==
    /\ MomentumScored /\ BullishCrossScenario(obs.df)
    /\ obs.df.prev_macd_hist > obs.df.macd_hist
    /\ obs.df.rsi_div = "bearish" /\ obs.df.macd_div = "none"
    /\ obs.ret.signal = "BUY"
    /\ obs.ret.confidence = 55

-----------------------------------------------------------------------------
(* The funding-rate filter on its own (strategy_manager.py:288-321): every
   signal against funding rates on both sides of +-0.05% and +-0.1%, rates
   in units of 0.0001. *)

FundingRates == {-10000, -11, -10, -7, -6, -5, 0, 5, 6, 7, 10, 11, 10000}

FilterSignals ==
    { [RawSignal(d, 50) EXCEPT !.confidence = IF d = "HOLD" THEN 0 ELSE c,
                               !.strategy = "momentum"] :
        d \in {"BUY", "SELL", "HOLD"}, c \in {5, 50, 78, 95, 100} }

DoFundingFilter(signal, funding_rate) ==
    /\ obs' = [op |-> "funding_filter", signal |-> signal,
               funding_rate |-> funding_rate,
               ret |-> apply_funding_filter(signal, funding_rate)]
    /\ UNCHANGED <<riskVars, notRisk>>

\* the order-book filter runs next in get_signal; here it is fed the output
\* of the funding filter
DoObFilter(imbalance) ==
    /\ obs.op = "funding_filter"
    /\ obs' = [op |-> "ob_filter", signal |-> obs.ret, imbalance |-> imbalance,
               ret |-> apply_ob_filter(obs.ret, imbalance)]
    /\ UNCHANGED <<riskVars, notRisk>>

NextFunding ==
    \/ \E signal \in FilterSignals, funding_rate \in FundingRates :
          DoFundingFilter(signal, funding_rate)
    \/ \E imbalance \in SignalOBs : DoObFilter(imbalance)

SpecFunding == Init /\ [][NextFunding]_vars

FundingFiltered == obs.op = "funding_filter"

\* the adjustment as stated, in hundredths: +-0.1% is 10 units
StatedFundingAdjustment(signal, funding_rate) ==
    IF \/ signal.signal = "BUY"  /\ funding_rate > 10
       \/ signal.signal = "SELL" /\ funding_rate < -10
    THEN -15
    ELSE IF \/ signal.signal = "BUY"  /\ funding_rate < -10
            \/ signal.signal = "SELL" /\ funding_rate > 10
    THEN 8
    ELSE 0

\* C23: the funding-rate filter subtracts 0.15 from a BUY when funding is
\* above +0.1% and from a SELL when it is below -0.1%, adds 0.08 to a BUY
\* when funding is below -0.1% and to a SELL when it is above +0.1% (the
\* result kept in [0, 1]), and returns the signal unchanged for every other
\* funding rate.
C23_FundingFilter ==
    FundingFiltered =>
       LET a == StatedFundingAdjustment(obs.signal, obs.funding_rate)
       IN  IF a = 0 THEN obs.ret = obs.signal
           ELSE /\ obs.ret.signal = obs.signal.signal
                /\ obs.ret.confidence = Max(0, Min(100, obs.signal.confidence + a))

\* What holds: the penalty is as stated, and the reward of 0.08 is given
\* already beyond +-0.05%.
C23_RewardFromHalfThreshold ==
    FundingFiltered =>
       LET buy  == obs.signal.signal = "BUY"
           sell == obs.signal.signal = "SELL"
           r    == obs.funding_rate
           a    == IF (buy /\ r > 10) \/ (sell /\ r < -10) THEN -15
                   ELSE IF (buy /\ r < -5) \/ (sell /\ r > 5) THEN 8
                   ELSE 0
       IN  IF a = 0 THEN obs.ret = obs.signal
           ELSE /\ obs.ret.signal = obs.signal.signal
                /\ obs.ret.confidence = Max(0, Min(100, obs.signal.confidence + a))

-----------------------------------------------------------------------------
(* The same-direction cap over the ticks of the bot *)

SameSide(positions, side) ==
    Cardinality({s \in Symbols : positions[s].open /\ positions[s].side = side})

C24_WitnessBothSides ==
    /\ Ticked
    /\ SameSide(portfolio.positions, "buy") = MAX_SAME_DIRECTION_POSITIONS
    /\ SameSide(portfolio.positions, "sell") = MAX_SAME_DIRECTION_POSITIONS

-----------------------------------------------------------------------------
(* The loss at the stop of the positions the bot opens *)

\* the position the j-th evaluation of the tick opened
OpenedPosition(j) == obs.evals[j].pf_after.positions[obs.evals[j].symbol]

LossAtStop(position) ==
    position.quantity * Abs(position.entry_price - position.stop_loss)

\* C25: for every position opened, quantity * |entry - stop_loss| does not
\* exceed the margin position sizing allocated to the trade, also after the
\* adaptive scaling of the quantity.
C25_LossAtStopWithinMargin ==
    Ticked =>
      \A j \in DOMAIN obs.evals :
         obs.evals[j].outcome = "opened" =>
            QLe(QInt(LossAtStop(OpenedPosition(j))), obs.evals[j].margin)

\* What holds: the bound is kept against the price the signal asked for,
\* and every position is opened by a bot without adaptive overrides.
C25_WithinMarginAtRequestedPrice ==
    Ticked =>
      \A j \in DOMAIN obs.evals :
         obs.evals[j].outcome = "opened" =>
            /\ ~bot.adaptive
            /\ QLe(QInt(OpenedPosition(j).quantity
                          * Abs(obs.evals[j].signal.entry_price
                                  - OpenedPosition(j).stop_loss)),
                   obs.evals[j].margin)

-----------------------------------------------------------------------------
(* How the per-symbol evaluations end *)

\* an evaluation ended in an order intent or in a refusal
IntentOrRefusal(e) == e.outcome \in {"opened", "blocked", "no_data", "no_order"}

\* the signal passed the validation of the evaluation: with adaptive
\* overrides, the three refusals for HOLD, a confidence under the adaptive
\* threshold and a stop that is not positive (bot.py:465-470)
PassesAdaptiveRefusals(e) ==
    /\ e.signal.signal # "HOLD"
    /\ e.signal.stop_loss > 0
    /\ \E g \in DOMAIN e.gates :
          e.gates[g] = [gate |-> "validation", blocked |-> FALSE]

\* C26: every per-symbol evaluation ends in an opened position or a refusal,
\* never in an error; with adaptive overrides active, a non-HOLD signal that
\* meets the adaptive confidence and has a positive stop goes on to the
\* reward:risk check, the correlation check and sizing.
C26_IntentOrRefusal ==
    Ticked =>
      \A j \in DOMAIN obs.evals :
         /\ IntentOrRefusal(obs.evals[j])
         /\ (bot.adaptive /\ PassesAdaptiveRefusals(obs.evals[j])) =>
               \E g \in DOMAIN obs.evals[j].gates :
                  obs.evals[j].gates[g].gate = "correlation"

\* What holds: without adaptive overrides every evaluation ends in an intent
\* or a refusal; with them an evaluation is either refused by one of the
\* three adaptive refusals or is left by the exception, and nothing is opened.
C26_AdaptiveNeverOpens ==
    Ticked =>
      \A j \in DOMAIN obs.evals :
         /\ ~bot.adaptive => IntentOrRefusal(obs.evals[j])
         /\ bot.adaptive => obs.evals[j].outcome \in {"blocked", "no_data", "error"}
         /\ obs.evals[j].outcome = "error" =>
               /\ bot.adaptive
               /\ obs.evals[j].pf_after = obs.evals[j].pf_before

-----------------------------------------------------------------------------
(* The run of rejections behind a downgrade *)

\* the call just made downgraded a trending primary regime to ranging
Downgraded ==
    /\ Observed /\ ENABLE_TRENDING_WEAK /\ MTF_REGIME_CONFIRMATION
    /\ obs.primary = "trending" /\ obs.regime = "ranging"

\* C27: in graduated mode a symbol is downgraded to RANGING only if the
\* higher-timeframe ADX was below the weak threshold on each of the symbol's
\* last MTF_REJECTION_CONFIRMATIONS consecutive get_signal calls; a call with
\* another primary regime than TRENDING, or without higher-timeframe data,
\* breaks the run.
C27_DowngradeAfterConsecutiveRejections ==
    Downgraded => hist[obs.sym].below_run >= MTF_REJECTION_CONFIRMATIONS

\* What holds: the downgrade is the MTF_REJECTION_CONFIRMATIONS-th rejection
\* counted since the last call that reset the counter, whatever calls lie in
\* between.
C27_DowngradeOnCounter ==
    Downgraded =>
       /\ obs.htf.present /\ obs.htf.adx < MTF_WEAK_ADX_THRESHOLD
       /\ obs.count_before[obs.sym] >= MTF_REJECTION_CONFIRMATIONS - 1

-----------------------------------------------------------------------------
(* The stop of an open position over the price ticks (SpecTrailing): a
   position is entered long or short and _check_open_positions runs on one
   price after another, with STAIRCASE_PROFIT_ENABLED off (the default) and
   on. *)

MaxTrailTicks == 4

TrailPrices == {7680, 7760, 7840, 8000, 8160, 8240, 8320}

InitTrailing ==
    /\ Constructed
    /\ cfg \in {[Settings EXCEPT !.staircase_profit_enabled = e] :
                  e \in BOOLEAN}

\* the position of a filled entry is tracked (bot.py:546-562): a momentum
\* trade of two units at 8000 with its stop 1.5 ATR away and its target at
\* twice the risk
EntryFilled(symbol, side) ==
    /\ bar = 0
    /\ ~portfolio.positions[symbol].open
    /\ portfolio' =
          add_position(portfolio, symbol,
             Position(side, 8000, 2,
                      IF side = "buy" THEN 7840 ELSE 8160,
                      IF side = "buy" THEN 8320 ELSE 7680,
                      "momentum", 95, StrategySLMultiplier("momentum"),
                      "trending"))
    /\ obs' = [op |-> "entry", sym |-> symbol]
    /\ UNCHANGED <<riskVars, adaptiveVars, signalVars, bot, cfg, hist, opened>>

\* _check_open_positions on the prices of one tick
CheckOpenPositions(prices) ==
    /\ bar < MaxTrailTicks
    /\ open_position_count(portfolio) > 0
    /\ bar' = bar + 1
    /\ \E w \in {check_open_positions(World, prices, bar + 1, FALSE)} :
          /\ rm' = w.rm
          /\ portfolio' = w.pf
          /\ tr' = w.tr
          /\ db' = w.db
    /\ obs' = [op |-> "check_open_positions", prices |-> prices,
               pf_before |-> portfolio]
    /\ UNCHANGED <<sl_note, events, signalVars, bot, cfg, hist, opened>>

NextTrailing ==
    \/ \E side \in {"buy", "sell"} : EntryFilled("BTC", side)
    \/ \E p \in TrailPrices : CheckOpenPositions([s \in Symbols |-> p])

SpecTrailing == InitTrailing /\ [][NextTrailing]_vars

PositionsChecked == obs.op = "check_open_positions"

\* the stop of every position that stayed open did not move against it
StopsMovedFavourably ==
    \A s \in Symbols :
       (obs.pf_before.positions[s].open /\ portfolio.positions[s].open) =>
          IF portfolio.positions[s].side = "buy"
          THEN portfolio.positions[s].stop_loss
                  >= obs.pf_before.positions[s].stop_loss
          ELSE portfolio.positions[s].stop_loss
                  <= obs.pf_before.positions[s].stop_loss

\* C28: over the lifetime of an open position its stop-loss only moves in
\* the favourable direction (a long's never decreases, a short's never
\* increases), across trailing updates, breakeven activation, hybrid
\* take-profit activation and the staircase partial close.
C28_StopOnlyMovesFavourably ==
    PositionsChecked => StopsMovedFavourably

\* What holds: without the staircase partial close the stop only moves in
\* the favourable direction.
C28_FavourableWithoutStaircase ==
    (PositionsChecked /\ ~cfg.staircase_profit_enabled) => StopsMovedFavourably

-----------------------------------------------------------------------------
(* The floor under the stop distance of opened positions *)

\* the stop is at least MIN_SL_DISTANCE_PCT of the entry price away
AtOrBeyondFloor(entry_price, stop_loss) ==
    1000 * Abs(entry_price - stop_loss) >= MIN_SL_DISTANCE_PCT * entry_price

\* the evaluation passed its validation, on either path
PassedValidation(e) ==
    \E g \in DOMAIN e.gates :
       e.gates[g] = [gate |-> "validation", blocked |-> FALSE]

C29_FloorOnValidatePath ==
    Ticked =>
      \A j \in DOMAIN obs.evals :
         /\ obs.evals[j].outcome = "opened" =>
               /\ ~bot.adaptive
               /\ AtOrBeyondFloor(OpenedPosition(j).entry_price,
                                  OpenedPosition(j).stop_loss)
               /\ AtOrBeyondFloor(obs.evals[j].signal.entry_price,
                                  OpenedPosition(j).stop_loss)
         /\ (bot.adaptive /\ PassedValidation(obs.evals[j])) =>
               obs.evals[j].outcome = "error"

\* Reached: the SELL with its stop 0.5% above the price is opened with the
\* stop widened to 8120 and the entry at the fill price 7996.
C29_ReachedWidened ==
    /\ Ticked
    /\ \E j \in DOMAIN obs.evals :
          /\ obs.evals[j].outcome = "opened"
          /\ OpenedPosition(j).side = "sell"
          /\ OpenedPosition(j).entry_price = 7996
          /\ OpenedPosition(j).stop_loss = 8120

-----------------------------------------------------------------------------
(* The index of the gates against the clock (SpecClock): the live run loop,
   tick by tick, beside the replay of the backtest, bar by bar.  mkt holds
   the clock: the seconds since the first evaluation, and as history the
   time at which each symbol's stop-loss was registered and the time at
   which the hourly window was last restarted. *)

MaxClockTicks == 8

BOT_LOOP_INTERVAL_SECONDS == 60
\* PRIMARY_TIMEFRAME = "15m" in the table of check_trade_frequency
tf_minutes == 15
BarSeconds == tf_minutes * 60

ClockInit ==
    [ now |-> 0, sl_at |-> [s \in Symbols |-> NoBar], hour_at |-> 0 ]

InitClock ==
    /\ bar = 0
    /\ rm = RiskManagerInit
    /\ obs = NoCall
    /\ sl_note = [s \in Symbols |-> [cd |-> 0, touched |-> FALSE]]
    /\ events = 0
    /\ tr = PerformanceTrackerInit
    /\ db = <<>>
    /\ sm = StrategyManagerInit
    /\ mkt = ClockInit
    /\ portfolio = PortfolioInit
    /\ bot \in {[BotInit EXCEPT !.mode = m] : m \in {"live", "backtest"}}
    /\ hist = NoHistory
    /\ opened = [b \in 0..MaxFrequencyBar |-> 0]
    /\ cfg = Settings

ClockPrices == {[s \in Symbols |-> p] : p \in {7680, 8000}}
ClockFeeds  == {[s \in Symbols |-> BuyFeed], [s \in Symbols |-> HoldFeed]}

\* one evaluation with the index it was given, and the clock moved on by
\* the time to the next one
Evaluation(index, interval, prices, feeds) ==
    /\ bar < MaxClockTicks
    /\ bar' = bar + 1
    /\ \E w \in {tick(World, bot.mode, FALSE, index, 10000, prices, feeds)} :
          /\ rm' = w.rm
          /\ portfolio' = w.pf
          /\ sm' = w.sm
          /\ tr' = w.tr
          /\ db' = w.db
          /\ mkt' = [ now     |-> mkt.now + interval,
                      sl_at   |-> [s \in Symbols |->
                                     IF w.rm.last_stop_loss_bar[s]
                                          # rm.last_stop_loss_bar[s]
                                     THEN mkt.now ELSE mkt.sl_at[s]],
                      hour_at |-> IF w.rm.hour_start_bar # rm.hour_start_bar
                                  THEN mkt.now ELSE mkt.hour_at ]
          /\ obs' = [op |-> "evaluation", index |-> index, now |-> mkt.now,
                     evals |-> w.evals, rm_before |-> rm, rm_after |-> w.rm,
                     sl_at |-> mkt'.sl_at, hour_at |-> mkt.hour_at]
    /\ UNCHANGED <<sl_note, events, bot, cfg, hist, opened>>

\* one iteration of _run_loop (bot.py:155-174): _tick adds one to
\* _tick_counter and evaluates with it, then the loop sleeps
\* BOT_LOOP_INTERVAL_SECONDS
LoopIteration(prices, feeds) ==
    /\ bot.mode = "live"
    /\ Evaluation(bar + 1, BOT_LOOP_INTERVAL_SECONDS, prices, feeds)

\* one bar of the replay (engine.py:169): bar_idx counts the bars of the
\* primary timeframe from 0
ReplayBar(prices, feeds) ==
    /\ bot.mode = "backtest"
    /\ Evaluation(bar, BarSeconds, prices, feeds)

NextClock ==
    \/ \E p \in ClockPrices, f \in ClockFeeds : LoopIteration(p, f)
    \/ \E p \in ClockPrices, f \in ClockFeeds : ReplayBar(p, f)

SpecClock == InitClock /\ [][NextClock]_vars

ClockEvaluated == obs.op = "evaluation"

\* the index has advanced by one for each bar of the primary timeframe
\* that has gone by since the first evaluation
IndexPerBar ==
    obs.index - (IF bot.mode = "live" THEN 1 ELSE 0) = obs.now \div BarSeconds

\* a symbol whose stop-loss was registered less than COOLDOWN_BARS bars ago
\* is refused by the cooldown gate
CooldownLastsItsBars ==
    \A j \in DOMAIN obs.evals :
       (/\ obs.sl_at[obs.evals[j].symbol] # NoBar
        /\ obs.now - obs.sl_at[obs.evals[j].symbol]
              < COOLDOWN_BARS * BarSeconds)
         => obs.evals[j].gates[1] = [gate |-> "cooldown", blocked |-> TRUE]

\* the hourly window is restarted only when an hour has gone by
HourlyWindowLastsAnHour ==
    obs.rm_after.hour_start_bar # obs.rm_before.hour_start_bar
       => obs.now - obs.hour_at >= 3600

\* C30: in live mode, as in the backtest, the index given to the cooldown
\* and trade-frequency gates advances by one per bar of the primary
\* timeframe: a cooldown of COOLDOWN_BARS indices lasts COOLDOWN_BARS bars
\* and the hourly window of bars_per_hour indices lasts one hour.
C30_IndexAdvancesPerBar ==
    ClockEvaluated =>
       /\ IndexPerBar
       /\ CooldownLastsItsBars
       /\ HourlyWindowLastsAnHour

\* What holds: the replay keeps all three; the live index advances by one
\* per BOT_LOOP_INTERVAL_SECONDS.
C30_ReplayIndexPerBar ==
    ClockEvaluated =>
       IF bot.mode = "backtest"
       THEN IndexPerBar /\ CooldownLastsItsBars /\ HourlyWindowLastsAnHour
       ELSE obs.index - 1 = obs.now \div BOT_LOOP_INTERVAL_SECONDS

\* Reached: live, a symbol stopped out five minutes ago passes the
\* cooldown gate.
C30_ReachedEarlyRelease ==
    /\ ClockEvaluated /\ bot.mode = "live"
    /\ \E j \in DOMAIN obs.evals :
          /\ obs.sl_at[obs.evals[j].symbol] # NoBar
          /\ obs.now - obs.sl_at[obs.evals[j].symbol] = 300
          /\ obs.evals[j].gates[1] = [gate |-> "cooldown", blocked |-> FALSE]

\* Reached: in the replay a symbol is still refused four bars after its
\* stop-loss and passes the gate five bars after it.
C30_ReachedReplayCooldown ==
    /\ ClockEvaluated /\ bot.mode = "backtest"
    /\ \E j \in DOMAIN obs.evals :
          /\ obs.sl_at[obs.evals[j].symbol] # NoBar
          /\ obs.now - obs.sl_at[obs.evals[j].symbol] = 5 * BarSeconds
          /\ obs.evals[j].gates[1] = [gate |-> "cooldown", blocked |-> FALSE]
=============================================================================
